---- MODULE Spec2Model ----
(***************************************************************************)
(* CellSim: model of the simulation engine (PetriDish, Cell, PurpleCell,   *)
(* RedCell).                                                               *)
(*                                                                         *)
(* Fixed-point units used for the JavaScript doubles:                      *)
(*   lengths, positions, radii      1/100 px            (PX == 100)        *)
(*   velocities                     1/100 px per tick                      *)
(*   energy                         1/6000 energy unit  (EU == 6000)       *)
(*   maxSpeed gene                  1/100 px per tick                      *)
(*   acceleration gene              1/1000                                 *)
(*   friction, baselineBurn, wallAvoidance genes   1/100                   *)
(*   mutationRate gene              1/10000                                *)
(*   times                          ms                                     *)
(* Math.random() draws are inputs chosen with \E from small sets.          *)
(***************************************************************************)
EXTENDS Integers, Sequences, FiniteSets, TLC

VARIABLES cells, foods, nutrients, deadBodies, blocks, death, grow, now,
          nextId, ticks, ops, log,
          paused, autoFood, timers, timerSeq, term,
          spawnFoodMode, spawnCellMode, mode

vars == <<cells, foods, nutrients, deadBodies, blocks, death, grow, now,
          nextId, ticks, ops, log,
          paused, autoFood, timers, timerSeq, term,
          spawnFoodMode, spawnCellMode, mode>>

(* the controls beside the dish: the freeze flag, the auto-food state, the *)
(* pending timeouts [id, fn, ms] with the id the next setTimeout returns,  *)
(* the lines of the console, and the tool selected for the pointer        *)
tools == <<spawnFoodMode, spawnCellMode, mode>>
panel == <<paused, autoFood, timers, timerSeq, term, spawnFoodMode, spawnCellMode, mode>>

---------------------------------------------------------------------------
(* Units *)
PX == 100
EU == 6000

(* Bounds of the model *)
MaxTicks == 2
MaxOps == 1

---------------------------------------------------------------------------
(* Arithmetic helpers (Math.max, Math.min, Math.abs, Math.round, hypot) *)
Max(a, b) == IF a >= b THEN a ELSE b
Min(a, b) == IF a <= b THEN a ELSE b
Abs(a) == IF a < 0 THEN -a ELSE a

RECURSIVE ISqrtBin(_, _, _)
ISqrtBin(n, lo, hi) ==
  IF lo >= hi THEN lo
  ELSE LET mid == (lo + hi + 1) \div 2
       IN IF mid * mid <= n THEN ISqrtBin(n, mid, hi) ELSE ISqrtBin(n, lo, mid - 1)

ISqrt(n) == ISqrtBin(n, 0, 46340)

Hypot(dx, dy) == ISqrt(dx * dx + dy * dy)

RECURSIVE SeqSum(_)
SeqSum(s) == IF s = <<>> THEN 0 ELSE Head(s) + SeqSum(Tail(s))

Range(s) == {s[i] : i \in DOMAIN s}

---------------------------------------------------------------------------
(* Genome and clamp policy *)

CLAMP ==
  [radius           |-> <<4 * PX, 9 * PX>>,
   maxSpeed         |-> <<110, 260>>,
   acceleration     |-> <<45, 140>>,
   friction         |-> <<93, 99>>,
   digestionDelay   |-> <<150, 1200>>,
   reproThreshold   |-> <<50, 130>>,
   reproCost        |-> <<20, 70>>,
   childStartEnergy |-> <<15, 60>>,
   baselineBurn     |-> <<80, 200>>,
   wallAvoidance    |-> <<0, 100>>,
   mutationRate     |-> <<0, 10000>>]

MutableTraits ==
  {"radius", "maxSpeed", "acceleration", "friction", "digestionDelay",
   "reproThreshold", "reproCost", "childStartEnergy", "baselineBurn",
   "wallAvoidance"}

(* customHue = Undef models an absent field; wallAvoidance / mutationRate  *)
(* may be absent in a hand-built genome as well.                           *)
Undef == -1

clamp(v, range) == Max(range[1], Min(range[2], v))

(* clampGenes defaulting the rate as `g.mutationRate || 0.1` *)
clampGenesFalsyRate(g) ==
  [g EXCEPT
     !.radius           = clamp(g.radius, CLAMP.radius),
     !.maxSpeed         = clamp(g.maxSpeed, CLAMP.maxSpeed),
     !.acceleration     = clamp(g.acceleration, CLAMP.acceleration),
     !.friction         = clamp(g.friction, CLAMP.friction),
     !.digestionDelay   = clamp(g.digestionDelay, CLAMP.digestionDelay),
     !.reproThreshold   = clamp(g.reproThreshold, CLAMP.reproThreshold),
     !.reproCost        = clamp(g.reproCost, CLAMP.reproCost),
     !.childStartEnergy = clamp(g.childStartEnergy, CLAMP.childStartEnergy),
     !.baselineBurn     = clamp(g.baselineBurn, CLAMP.baselineBurn),
     !.wallAvoidance    = clamp(IF g.wallAvoidance # Undef THEN g.wallAvoidance ELSE 30,
                                CLAMP.wallAvoidance),
     !.mutationRate     = clamp(IF g.mutationRate # Undef /\ g.mutationRate # 0 THEN g.mutationRate ELSE 1000,
                                CLAMP.mutationRate)]

(* clampGenes without the radius line *)
clampGenesNoRadius(g) ==
  [g EXCEPT
     !.maxSpeed         = clamp(g.maxSpeed, CLAMP.maxSpeed),
     !.acceleration     = clamp(g.acceleration, CLAMP.acceleration),
     !.friction         = clamp(g.friction, CLAMP.friction),
     !.digestionDelay   = clamp(g.digestionDelay, CLAMP.digestionDelay),
     !.reproThreshold   = clamp(g.reproThreshold, CLAMP.reproThreshold),
     !.reproCost        = clamp(g.reproCost, CLAMP.reproCost),
     !.childStartEnergy = clamp(g.childStartEnergy, CLAMP.childStartEnergy),
     !.baselineBurn     = clamp(g.baselineBurn, CLAMP.baselineBurn),
     !.wallAvoidance    = clamp(IF g.wallAvoidance # Undef THEN g.wallAvoidance ELSE 30,
                                CLAMP.wallAvoidance),
     !.mutationRate     = clamp(IF g.mutationRate # Undef THEN g.mutationRate ELSE 1000,
                                CLAMP.mutationRate)]

clampGenes(g) ==
  [g EXCEPT
     !.radius           = clamp(g.radius, CLAMP.radius),
     !.maxSpeed         = clamp(g.maxSpeed, CLAMP.maxSpeed),
     !.acceleration     = clamp(g.acceleration, CLAMP.acceleration),
     !.friction         = clamp(g.friction, CLAMP.friction),
     !.digestionDelay   = clamp(g.digestionDelay, CLAMP.digestionDelay),
     !.reproThreshold   = clamp(g.reproThreshold, CLAMP.reproThreshold),
     !.reproCost        = clamp(g.reproCost, CLAMP.reproCost),
     !.childStartEnergy = clamp(g.childStartEnergy, CLAMP.childStartEnergy),
     !.baselineBurn     = clamp(g.baselineBurn, CLAMP.baselineBurn),
     !.wallAvoidance    = clamp(IF g.wallAvoidance # Undef THEN g.wallAvoidance ELSE 30,
                                CLAMP.wallAvoidance),
     !.mutationRate     = clamp(IF g.mutationRate # Undef THEN g.mutationRate ELSE 1000,
                                CLAMP.mutationRate)]

(* mutationRanges, in percent of the parent value *)
mutationRanges ==
  [radius |-> 10, maxSpeed |-> 12, acceleration |-> 15, friction |-> 5,
   digestionDelay |-> 20, reproThreshold |-> 15, reproCost |-> 15,
   childStartEnergy |-> 20, baselineBurn |-> 12, wallAvoidance |-> 15]

(* (Math.random() - 0.5) * 2 in thousandths: a value of [-1, 1) *)
UnitDraws == {-1000, 999}
NoMut == 5000

(* mutationAmount with effectiveRange = range: u/1000 * range/100 *)
mutationAmountUnscaled(range, rate, u) == (u * range * 10000) \div 1000

(* mutationAmount in 1e-6: u/1000 * range/100 * (0.5 + 0.5 * rate)         *)
mutationAmount(range, rate, u) == (u * range * (5000 + rate \div 2)) \div 1000

(* Math.round of q / d, q >= 0 and d even (round half up) *)
RoundDiv(q, d) == (q + d \div 2) \div d

(* applyGradualMutation: clamp(parentValue * (1 + mutationAmount)); the    *)
(* result is in 1e-6 of the trait's unit                                   *)
applyGradualMutation(parentValue, range, rate, u, cl) ==
  LET newValue == parentValue * (1000000 + mutationAmount(range, rate, u))
  IN clamp(newValue, <<cl[1] * 1000000, cl[2] * 1000000>>)

(* What mutate stores: Math.round(...) for the integer traits (whole px    *)
(* for the radius), the double itself (to the fixed-point unit) otherwise  *)
StoreTrait(t, micro) ==
  IF t = "radius" THEN PX * RoundDiv(micro, PX * 1000000)
  ELSE RoundDiv(micro, 1000000)

(* A draw fixes the outcome of every Math.random() call of one mutate():   *)
(* draw[t] = NoMut when shouldMutate(t) is false, else the value u of the  *)
(* perturbation; draw.customHue and draw.mutationRate likewise.            *)
DrawKeys == MutableTraits \cup {"customHue", "mutationRate"}

(* shouldMutate is Math.random() < mutationRate: it can fail only when     *)
(* mutationRate < 1 and can succeed only when mutationRate > 0.            *)
DrawPossible(rate, draw) ==
  /\ \A t \in MutableTraits \cup {"customHue"} :
       /\ (draw[t] = NoMut) => rate < 10000
       /\ (draw[t] # NoMut) => rate > 0

mutateHue(hue, rate, u) ==
  LET hueRange == 30 + (30 * rate) \div 10000
      hueMutation == (u * hueRange) \div 1000
  IN (hue + hueMutation + 360) % 360

mutateRate(rate, u) ==
  LET v == clamp((rate * (10000 + u)) \div 10000, CLAMP.mutationRate)
  IN IF v < 1 THEN 0 ELSE v

(* mutate reading the rate as `parentGenes.mutationRate || 0.1` *)
mutateFalsyRate(parentGenes, draw) ==
  LET mutationRate == IF parentGenes.mutationRate # Undef /\ parentGenes.mutationRate # 0
                      THEN parentGenes.mutationRate ELSE 1000
  IN IF mutationRate <= 0
     THEN [parentGenes EXCEPT !.mutationRate = 0]
     ELSE LET tr(t) == IF draw[t] # NoMut
                       THEN StoreTrait(t, applyGradualMutation(parentGenes[t],
                                              mutationRanges[t], mutationRate,
                                              draw[t], CLAMP[t]))
                       ELSE parentGenes[t]
          IN [radius           |-> tr("radius"),
              maxSpeed         |-> tr("maxSpeed"),
              acceleration     |-> tr("acceleration"),
              friction         |-> tr("friction"),
              digestionDelay   |-> tr("digestionDelay"),
              reproThreshold   |-> tr("reproThreshold"),
              reproCost        |-> tr("reproCost"),
              childStartEnergy |-> tr("childStartEnergy"),
              baselineBurn     |-> tr("baselineBurn"),
              wallAvoidance    |-> tr("wallAvoidance"),
              customHue        |-> IF parentGenes.customHue # Undef /\ draw.customHue # NoMut
                                   THEN mutateHue(parentGenes.customHue, mutationRate,
                                                  draw.customHue)
                                   ELSE parentGenes.customHue,
              customCellName   |-> parentGenes.customCellName,
              mutationRate     |-> IF draw.mutationRate # NoMut
                                   THEN mutateRate(mutationRate, draw.mutationRate)
                                   ELSE mutationRate]

(* mutate taking one mutation decision for the whole genome: when any     *)
(* trait is drawn, every trait is perturbed                                *)
mutateTogether(parentGenes, draw) ==
  LET mutationRate == IF parentGenes.mutationRate # Undef
                      THEN parentGenes.mutationRate ELSE 1000
      any == \E t \in MutableTraits : draw[t] # NoMut
      tr(t) == IF any
               THEN StoreTrait(t, applyGradualMutation(parentGenes[t],
                                      mutationRanges[t], mutationRate,
                                      IF draw[t] # NoMut THEN draw[t] ELSE 999,
                                      CLAMP[t]))
               ELSE parentGenes[t]
  IN IF mutationRate <= 0
     THEN [parentGenes EXCEPT !.mutationRate = 0]
     ELSE [parentGenes EXCEPT
             !.radius = tr("radius"), !.maxSpeed = tr("maxSpeed"),
             !.acceleration = tr("acceleration"), !.friction = tr("friction"),
             !.digestionDelay = tr("digestionDelay"),
             !.reproThreshold = tr("reproThreshold"),
             !.reproCost = tr("reproCost"),
             !.childStartEnergy = tr("childStartEnergy"),
             !.baselineBurn = tr("baselineBurn"),
             !.wallAvoidance = tr("wallAvoidance"),
             !.mutationRate = IF draw.mutationRate # NoMut
                              THEN mutateRate(mutationRate, draw.mutationRate)
                              ELSE mutationRate]

mutate(parentGenes, draw) ==
  LET mutationRate == IF parentGenes.mutationRate # Undef
                      THEN parentGenes.mutationRate ELSE 1000
  IN IF mutationRate <= 0
     THEN [parentGenes EXCEPT !.mutationRate = 0]
     ELSE LET tr(t) == IF draw[t] # NoMut
                       THEN StoreTrait(t, applyGradualMutation(parentGenes[t],
                                              mutationRanges[t], mutationRate,
                                              draw[t], CLAMP[t]))
                       ELSE parentGenes[t]
          IN [radius           |-> tr("radius"),
              maxSpeed         |-> tr("maxSpeed"),
              acceleration     |-> tr("acceleration"),
              friction         |-> tr("friction"),
              digestionDelay   |-> tr("digestionDelay"),
              reproThreshold   |-> tr("reproThreshold"),
              reproCost        |-> tr("reproCost"),
              childStartEnergy |-> tr("childStartEnergy"),
              baselineBurn     |-> tr("baselineBurn"),
              wallAvoidance    |-> tr("wallAvoidance"),
              customHue        |-> IF parentGenes.customHue # Undef /\ draw.customHue # NoMut
                                   THEN mutateHue(parentGenes.customHue, mutationRate,
                                                  draw.customHue)
                                   ELSE parentGenes.customHue,
              customCellName   |-> parentGenes.customCellName,
              mutationRate     |-> IF draw.mutationRate # NoMut
                                   THEN mutateRate(mutationRate, draw.mutationRate)
                                   ELSE mutationRate]

---------------------------------------------------------------------------
(* Agents: Cell ("blue"), PurpleCell ("purple"), RedCell ("red") *)

Kinds == {"blue", "purple", "red"}

(* per-class literals of the three constructors, tryReproduce and update *)
reproCooldownMs == [blue |-> 800, purple |-> 1000, red |-> 900]
viabilityFloor == [blue |-> 20, purple |-> 28, red |-> 24]
(* initial energy = min(maxEnergy * frac, reproThreshold - sub) *)
startFrac == [blue |-> 60, purple |-> 65, red |-> 55]
startSub == [blue |-> 10, purple |-> 8, red |-> 10]
(* metabolism: move cost per px of speed and size cost per px of radius,   *)
(* both in 1/6000 energy: 2.0/60, 1.6/60, 2.2/60 and 0.02, 0.03, 0.025     *)
moveCost == [blue |-> 200, purple |-> 160, red |-> 220]
sizeCost == [blue |-> 120, purple |-> 180, red |-> 150]
(* maxV = maxSpeed * (base + (1 - base) * min(1, energy / (maxEnergy * sat))) *)
speedBase == [blue |-> 75, purple |-> 80, red |-> 75]
speedSat == [blue |-> 60, purple |-> 65, red |-> 55]

maxEnergyOf(genes) == Max(100, genes.reproThreshold + 40) * EU

(* constructor of Cell / PurpleCell / RedCell; v is the random initial     *)
(* velocity, id a model-only identity of the object                        *)
NewCell(kind, x, y, genes, v, id) ==
  LET g == clampGenes(genes)
      maxE == maxEnergyOf(g)
  IN [id |-> id, kind |-> kind, x |-> x, y |-> y, vx |-> v[1], vy |-> v[2],
      genes |-> g,
      maxEnergy |-> maxE,
      energy |-> Min((maxE * startFrac[kind]) \div 100,
                     (g.reproThreshold - startSub[kind]) * EU),
      alive |-> TRUE, killed |-> FALSE,
      digestQueue |-> <<>>,
      lastReproMs |-> 0, lastBiteMs |-> 0]

queueDigest(c, amount, availableAtMs) ==
  [c EXCEPT !.digestQueue = Append(@, [amount |-> amount, atMs |-> availableAtMs])]

RECURSIVE DigestEnergy(_, _, _, _)
DigestEnergy(q, nowMs, energy, maxE) ==
  IF q = <<>> THEN energy
  ELSE DigestEnergy(Tail(q), nowMs,
                    IF Head(q).atMs <= nowMs THEN Min(maxE, energy + Head(q).amount)
                    ELSE energy,
                    maxE)

(* processDigestion adding every ready amount without the cap *)
processDigestionNoCap(c, nowMs) ==
  [c EXCEPT !.energy = @ + SeqSum([k \in DOMAIN c.digestQueue |->
                                     IF c.digestQueue[k].atMs <= nowMs
                                     THEN c.digestQueue[k].amount ELSE 0]),
            !.digestQueue = SelectSeq(c.digestQueue, LAMBDA it : it.atMs > nowMs)]

(* processDigestion leaving the applied credits in the queue *)
processDigestionKeepApplied(c, nowMs) ==
  [c EXCEPT !.energy = DigestEnergy(c.digestQueue, nowMs, c.energy, c.maxEnergy)]

processDigestion(c, nowMs) ==
  [c EXCEPT !.energy = DigestEnergy(c.digestQueue, nowMs, c.energy, c.maxEnergy),
            !.digestQueue = SelectSeq(c.digestQueue, LAMBDA it : it.atMs > nowMs)]

---------------------------------------------------------------------------
(* World parameters *)

(* canvas.width, canvas.height: multiples of gridCellSize (resizeCanvas) *)
W == 72 * PX
H == 48 * PX
gridCellSize == 24 * PX
blockSize == 24 * PX
foodRadius == 4 * PX
foodNutrition == 25 * EU
spawnJitter == 4 * PX

cols == (W + gridCellSize - 1) \div gridCellSize
rows == (H + gridCellSize - 1) \div gridCellSize

(* outcome of the steering part of update(): the velocity after friction,  *)
(* before the speed clamp; components in 1/100 px per tick                  *)
Vel == {<<0, 0>>, <<100, 0>>}
(* the constructor's random initial velocity *)
InitVel == <<0, 0>>

(* maxV of update(), 1/100 px per tick *)
maxV(c) ==
  LET ratio == Max(0, Min(1000, (c.energy * 100) \div ((c.maxEnergy * speedSat[c.kind]) \div 1000)))
  IN (c.genes.maxSpeed * (speedBase[c.kind] * 1000 + (100 - speedBase[c.kind]) * ratio)) \div 100000

(* walls: clamp to the radius margin and flip the velocity inward *)
walls(c) ==
  LET r == c.genes.radius
      c1 == IF c.x < r THEN [c EXCEPT !.x = r, !.vx = Abs(c.vx)] ELSE c
      c2 == IF c1.x > W - r THEN [c1 EXCEPT !.x = W - r, !.vx = -Abs(c1.vx)] ELSE c1
      c3 == IF c2.y < r THEN [c2 EXCEPT !.y = r, !.vy = Abs(c2.vy)] ELSE c2
      c4 == IF c3.y > H - r THEN [c3 EXCEPT !.y = H - r, !.vy = -Abs(c3.vy)] ELSE c3
  IN c4

(* one iteration of the block loop of update(): push the cell out of b *)
pushOut(c, b) ==
  LET r == c.genes.radius
      cellLeft == c.x - r
      cellRight == c.x + r
      cellTop == c.y - r
      cellBottom == c.y + r
      blockRight == b.x + blockSize
      blockBottom == b.y + blockSize
  IN IF cellRight > b.x /\ cellLeft < blockRight /\ cellBottom > b.y /\ cellTop < blockBottom
     THEN LET overlapX == Min(cellRight - b.x, blockRight - cellLeft)
              overlapY == Min(cellBottom - b.y, blockBottom - cellTop)
          IN IF overlapX < overlapY
             THEN IF 2 * c.x < 2 * b.x + blockSize
                  THEN [c EXCEPT !.x = b.x - r, !.vx = -(Abs(c.vx) \div 2)]
                  ELSE [c EXCEPT !.x = blockRight + r, !.vx = Abs(c.vx) \div 2]
             ELSE IF 2 * c.y < 2 * b.y + blockSize
                  THEN [c EXCEPT !.y = b.y - r, !.vy = -(Abs(c.vy) \div 2)]
                  ELSE [c EXCEPT !.y = blockBottom + r, !.vy = Abs(c.vy) \div 2]
     ELSE c

RECURSIVE pushOutAll(_, _)
pushOutAll(c, bs) ==
  IF bs = <<>> THEN c ELSE pushOutAll(pushOut(c, Head(bs)), Tail(bs))

(* energy cost of one update(), 1/6000 energy; speed in 1/100 px per tick *)
metabolismCost(c, speed) ==
  c.genes.baselineBurn
  + (moveCost[c.kind] * speed) \div PX
  + (sizeCost[c.kind] * (c.genes.radius - 6 * PX)) \div PX

metabolism(c, speed) ==
  LET e == c.energy - metabolismCost(c, speed)
  IN [c EXCEPT !.energy = e, !.alive = IF e <= 0 THEN FALSE ELSE c.alive]

(* Cell.update / PurpleCell.update / RedCell.update. v is the velocity the *)
(* steering and friction steps produce.                                    *)
update(c, nowMs, v, blks) ==
  IF ~c.alive THEN c
  ELSE LET c1 == processDigestion(c, nowMs)
           sp == Hypot(v[1], v[2])
           mv == maxV(c1)
           vx == IF sp > mv THEN (v[1] * mv) \div sp ELSE v[1]
           vy == IF sp > mv THEN (v[2] * mv) \div sp ELSE v[2]
           speed == IF sp > mv THEN mv ELSE sp
           c2 == [c1 EXCEPT !.vx = vx, !.vy = vy, !.x = c1.x + vx, !.y = c1.y + vy]
           c3 == walls(c2)
           c4 == pushOutAll(c3, blks)
       IN metabolism(c4, speed)

(* tryReproduce without the threshold guard *)
canReproduceNoThreshold(c, nowMs) ==
  /\ ~(nowMs - c.lastReproMs < reproCooldownMs[c.kind])
  /\ ~(c.energy - c.genes.reproCost * EU < viabilityFloor[c.kind] * EU)

(* tryReproduce without the cooldown guard *)
canReproduceNoCooldown(c, nowMs) ==
  /\ ~(c.energy < c.genes.reproThreshold * EU)
  /\ ~(c.energy - c.genes.reproCost * EU < viabilityFloor[c.kind] * EU)

(* tryReproduce without the viability guard *)
canReproduceNoFloor(c, nowMs) ==
  /\ ~(c.energy < c.genes.reproThreshold * EU)
  /\ ~(nowMs - c.lastReproMs < reproCooldownMs[c.kind])

(* the three guards of tryReproduce *)
canReproduce(c, nowMs) ==
  /\ ~(c.energy < c.genes.reproThreshold * EU)
  /\ ~(nowMs - c.lastReproMs < reproCooldownMs[c.kind])
  /\ ~(c.energy - c.genes.reproCost * EU < viabilityFloor[c.kind] * EU)

(* tryReproduce with a mutate that writes into the parent's genome object *)
reproParentInPlace(c, nowMs) ==
  [c EXCEPT !.energy = c.energy - c.genes.reproCost * EU, !.lastReproMs = nowMs,
            !.genes = mutate(c.genes, [k \in DrawKeys |-> -1000])]

(* tryReproduce on success: the parent after the call, and the child *)
reproParent(c, nowMs) ==
  [c EXCEPT !.energy = c.energy - c.genes.reproCost * EU, !.lastReproMs = nowMs]

reproChild(c, jit, draw, id) ==
  LET r == c.genes.radius
      newX == Max(r, Min(W - r, c.x + jit[1]))
      newY == Max(r, Min(H - r, c.y + jit[2]))
      child == NewCell(c.kind, newX, newY, mutate(c.genes, draw), InitVel, id)
  IN [child EXCEPT !.energy = Min(child.maxEnergy, child.genes.childStartEnergy * EU)]

---------------------------------------------------------------------------
(* Spatial grid *)

(* Math.floor(x / cellSize) *)
gridOf(x) == x \div gridCellSize

inGrid(gx, gy) == gx >= 0 /\ gx < cols /\ gy >= 0 /\ gy < rows

(* division rounding toward zero, as the sign-symmetric double arithmetic *)
TDiv(a, b) == IF a >= 0 THEN a \div b ELSE -((-a) \div b)

(* sort a finite set of integer tuples <<rank, ...>> by rank *)
RECURSIVE SortByRank(_)
SortByRank(S) ==
  IF S = {} THEN <<>>
  ELSE LET m == CHOOSE e \in S : \A f \in S : e[1] <= f[1]
       IN <<m>> \o SortByRank(S \ {m})

(* rank of neighbour offset (dx, dy) in the dy-outer, dx-inner scan *)
offsetRank(dx, dy) == (dy + 1) * 3 + (dx + 1)

bucketRank(gx, gy) == gy * cols + gx

---------------------------------------------------------------------------
(* PetriDish.resolveCollisions *)

restitutionPct == 92
lossK == 36
softK == 3
maxLoss == 2 * EU

(* dist < sumR * softRange with softRange = 1.15 = 23/20, on squares *)
inSoftRange(d2, sumR) == d2 <= (529 * sumR * sumR - 1) \div 400

(* the body of the pair loop for cells[i], cells[j] (i < j) *)
collidePair(cs, i, j) ==
  LET ci == cs[i]
      cj == cs[j]
      dx == cj.x - ci.x
      dy == cj.y - ci.y
      d2 == dx * dx + dy * dy
      dist == ISqrt(d2)
      nx == IF dist = 0 THEN 0 ELSE TDiv(dx * 1000, dist)
      ny == IF dist = 0 THEN 0 ELSE TDiv(dy * 1000, dist)
      sumR == ci.genes.radius + cj.genes.radius
      soft == inSoftRange(d2, sumR)
      repel == IF soft THEN (((sumR * 115) \div 100 - dist) * softK) \div 100 ELSE 0
      ivx == ci.vx - TDiv(nx * repel, 1000)
      ivy == ci.vy - TDiv(ny * repel, 1000)
      jvx == cj.vx + TDiv(nx * repel, 1000)
      jvy == cj.vy + TDiv(ny * repel, 1000)
      hard == d2 < sumR * sumR
      overlap == sumR - dist
      cx == TDiv(nx * overlap, 2000)
      cy == TDiv(ny * overlap, 2000)
      vnRaw == (ivx - jvx) * nx + (ivy - jvy) * ny
      vn == TDiv(vnRaw, 1000)
      jImpulse == -TDiv((100 + restitutionPct) * vn, 200)
      loss == Min(maxLoss, Abs(vn) * lossK)
      soft_i == [ci EXCEPT !.vx = ivx, !.vy = ivy]
      soft_j == [cj EXCEPT !.vx = jvx, !.vy = jvy]
      sep_i == [soft_i EXCEPT !.x = ci.x - cx, !.y = ci.y - cy]
      sep_j == [soft_j EXCEPT !.x = cj.x + cx, !.y = cj.y + cy]
      imp_i == [sep_i EXCEPT !.vx = ivx + TDiv(jImpulse * nx, 1000),
                             !.vy = ivy + TDiv(jImpulse * ny, 1000),
                             !.energy = Max(0, ci.energy - loss)]
      imp_j == [sep_j EXCEPT !.vx = jvx - TDiv(jImpulse * nx, 1000),
                             !.vy = jvy - TDiv(jImpulse * ny, 1000),
                             !.energy = Max(0, cj.energy - loss)]
  IN IF ~ci.alive \/ ~cj.alive THEN cs
     ELSE IF ~hard THEN [cs EXCEPT ![i] = soft_i, ![j] = soft_j]
     ELSE IF vnRaw > 0 THEN [cs EXCEPT ![i] = sep_i, ![j] = sep_j]
     ELSE [cs EXCEPT ![i] = imp_i, ![j] = imp_j]

(* indices of the living cells that the grid build places in a bucket *)
Indexed(cs) ==
  {i \in DOMAIN cs : cs[i].alive /\ inGrid(gridOf(cs[i].x), gridOf(cs[i].y))}

(* collisionPairs without the "i >= j" skip and the visited set: a pair is *)
(* taken from either end                                                   *)
collisionPairsBothWays(cs) ==
  LET n == Len(cs) + 1
      ix == Indexed(cs)
  IN SortByRank(
       {<<((bucketRank(gridOf(cs[i].x), gridOf(cs[i].y)) * 9
            + offsetRank(gridOf(cs[j].x) - gridOf(cs[i].x),
                         gridOf(cs[j].y) - gridOf(cs[i].y))) * n + i) * n + j, i, j>> :
          <<i, j>> \in {p \in ix \X ix :
                          /\ p[1] # p[2]
                          /\ Abs(gridOf(cs[p[2]].x) - gridOf(cs[p[1]].x)) <= 1
                          /\ Abs(gridOf(cs[p[2]].y) - gridOf(cs[p[1]].y)) <= 1}})

(* the pairs the bucket scan reaches, in scan order: <<rank, i, j>> *)
collisionPairs(cs) ==
  LET n == Len(cs) + 1
      ix == Indexed(cs)
  IN SortByRank(
       {<<((bucketRank(gridOf(cs[i].x), gridOf(cs[i].y)) * 9
            + offsetRank(gridOf(cs[j].x) - gridOf(cs[i].x),
                         gridOf(cs[j].y) - gridOf(cs[i].y))) * n + i) * n + j, i, j>> :
          <<i, j>> \in {p \in ix \X ix :
                          /\ p[1] < p[2]
                          /\ Abs(gridOf(cs[p[2]].x) - gridOf(cs[p[1]].x)) <= 1
                          /\ Abs(gridOf(cs[p[2]].y) - gridOf(cs[p[1]].y)) <= 1}})

RECURSIVE collideAll(_, _)
collideAll(cs, pairs) ==
  IF pairs = <<>> THEN cs
  ELSE collideAll(collidePair(cs, Head(pairs)[2], Head(pairs)[3]), Tail(pairs))

resolveCollisions(cs) ==
  IF Len(cs) < 2 THEN cs ELSE collideAll(cs, collisionPairs(cs))

---------------------------------------------------------------------------
(* PetriDish.checkPredation *)

nutritionPerKill == 35 * EU
biteCooldownMs == 450
(* satiation: pred.energy > pred.maxEnergy * 0.8 *)
satiated(c) == 10 * c.energy > 8 * c.maxEnergy

dist2(a, b) == (a.x - b.x) * (a.x - b.x) + (a.y - b.y) * (a.y - b.y)

(* dist <= (ri + rj) * eatFactor with eatFactor = 1.0 *)
inBite(pred, prey) ==
  dist2(pred, prey) <= (pred.genes.radius + prey.genes.radius) * (pred.genes.radius + prey.genes.radius)

(* neighbours of cell i in the order the 3x3 scan meets them; ix is the    *)
(* set of indices the grid build placed in buckets                         *)
neighbourScan(cs, ix, i) ==
  LET n == Len(cs) + 1
      cand == {j \in ix : /\ Abs(gridOf(cs[j].x) - gridOf(cs[i].x)) <= 1
                          /\ Abs(gridOf(cs[j].y) - gridOf(cs[i].y)) <= 1}
      ranked == SortByRank({<<offsetRank(gridOf(cs[j].x) - gridOf(cs[i].x),
                                         gridOf(cs[j].y) - gridOf(cs[i].y)) * n + j, j>> :
                              j \in cand})
  IN [k \in DOMAIN ranked |-> ranked[k][2]]

(* first element of seq s satisfying P, or 0 *)
FirstFrom(s, P(_)) ==
  LET hits == SelectSeq(s, P) IN IF hits = <<>> THEN 0 ELSE Head(hits)

(* preyOf without the bite cooldown test *)
preyOfNoCooldown(cs, ix, i, nowMs) ==
  LET pred == cs[i]
      ok(j) == j # i /\ cs[j].alive /\ cs[j].kind # "red" /\ inBite(pred, cs[j])
  IN IF ~pred.alive \/ pred.kind # "red" THEN 0
     ELSE IF satiated(pred) THEN 0
     ELSE FirstFrom(neighbourScan(cs, ix, i), ok)

(* the prey cells[i] bites in this pass (0 when none); cs is the state     *)
(* left by the predators scanned before i                                  *)
preyOf(cs, ix, i, nowMs) ==
  LET pred == cs[i]
      ok(j) == j # i /\ cs[j].alive /\ cs[j].kind # "red" /\ inBite(pred, cs[j])
  IN IF ~pred.alive \/ pred.kind # "red" THEN 0
     ELSE IF nowMs - pred.lastBiteMs < biteCooldownMs THEN 0
     ELSE IF satiated(pred) THEN 0
     ELSE FirstFrom(neighbourScan(cs, ix, i), ok)

(* bite without the stamp of the last-bite time *)
biteNoStamp(cs, i, j, nowMs) ==
  [cs EXCEPT ![j] = [cs[j] EXCEPT !.alive = FALSE, !.killed = TRUE],
             ![i] = queueDigest(cs[i], nutritionPerKill,
                                nowMs + cs[i].genes.digestionDelay)]

(* consume prey j by predator i *)
bite(cs, i, j, nowMs) ==
  [cs EXCEPT ![j] = [cs[j] EXCEPT !.alive = FALSE, !.killed = TRUE],
             ![i] = queueDigest([cs[i] EXCEPT !.lastBiteMs = nowMs],
                                nutritionPerKill, nowMs + cs[i].genes.digestionDelay)]

(* bucket scan order of the indexed cells *)
bucketOrder(cs, ix) ==
  LET n == Len(cs) + 1
      ranked == SortByRank({<<bucketRank(gridOf(cs[i].x), gridOf(cs[i].y)) * n + i, i>> :
                              i \in ix})
  IN [k \in DOMAIN ranked |-> ranked[k][2]]

(* result: [cs |-> cells after the pass, kills |-> <<[pred, prey]>> by id] *)
RECURSIVE predationLoop(_, _, _, _, _)
predationLoop(cs, ix, order, nowMs, kills) ==
  IF order = <<>> THEN [cs |-> cs, kills |-> kills]
  ELSE LET i == Head(order)
           j == preyOf(cs, ix, i, nowMs)
       IN IF j = 0 THEN predationLoop(cs, ix, Tail(order), nowMs, kills)
          ELSE predationLoop(bite(cs, i, j, nowMs), ix, Tail(order), nowMs,
                             Append(kills, [pred |-> cs[i].id, prey |-> cs[j].id]))

checkPredation(cs, nowMs) ==
  IF cs = <<>> THEN [cs |-> cs, kills |-> <<>>]
  ELSE predationLoop(cs, Indexed(cs), bucketOrder(cs, Indexed(cs)), nowMs, <<>>)

---------------------------------------------------------------------------
(* PetriDish.checkEating *)

inReach(c, f) ==
  (f.x - c.x) * (f.x - c.x) + (f.y - c.y) * (f.y - c.y)
    <= (c.genes.radius + foodRadius) * (c.genes.radius + foodRadius)

(* food indices of the bucket (gx, gy), in index order *)
foodBucket(fs, gx, gy) ==
  SelectSeq([k \in 1..Len(fs) |-> k],
            LAMBDA k : gridOf(fs[k].x) = gx /\ gridOf(fs[k].y) = gy)

(* the 9 neighbour buckets of (gx, gy) in scan order, off-grid ones skipped *)
neighbourBuckets(gx, gy) ==
  SelectSeq(<<<<gx - 1, gy - 1>>, <<gx, gy - 1>>, <<gx + 1, gy - 1>>,
              <<gx - 1, gy>>,     <<gx, gy>>,     <<gx + 1, gy>>,
              <<gx - 1, gy + 1>>, <<gx, gy + 1>>, <<gx + 1, gy + 1>>>>,
            LAMBDA b : inGrid(b[1], b[2]))

(* firstInBucket without the eaten-set test *)
firstInBucketAny(c, fs, bucket, eaten) ==
  FirstFrom(bucket, LAMBDA k : inReach(c, fs[k]))

(* the inner "for (const foodIndex of foodIndices)" loop for one bucket:   *)
(* the first pellet not yet eaten that is within contact distance, or 0    *)
firstInBucket(c, fs, bucket, eaten) ==
  FirstFrom(bucket, LAMBDA k : k \notin eaten /\ inReach(c, fs[k]))

(* one cell against its buckets; st = [c, eaten, credits]. The break of   *)
(* the source leaves only the innermost loop, so the scan goes on with the *)
(* next bucket.                                                            *)
RECURSIVE eatBuckets(_, _, _, _)
eatBuckets(st, fs, bks, nowMs) ==
  IF bks = <<>> THEN st
  ELSE LET k == firstInBucket(st.c, fs, foodBucket(fs, Head(bks)[1], Head(bks)[2]), st.eaten)
       IN IF k = 0 \/ st.c.kind = "red" THEN eatBuckets(st, fs, Tail(bks), nowMs)
          ELSE eatBuckets([c |-> queueDigest(st.c, foodNutrition,
                                             nowMs + st.c.genes.digestionDelay),
                           eaten |-> st.eaten \cup {k},
                           meals |-> Append(st.meals, [cell |-> st.c.id, food |-> k])],
                          fs, Tail(bks), nowMs)

(* result: [cs, eaten |-> set of food indices, meals |-> <<[cell, food]>>] *)
RECURSIVE eatLoop(_, _, _, _, _, _)
eatLoop(cs, i, fs, nowMs, eaten, meals) ==
  IF i > Len(cs) THEN [cs |-> cs, eaten |-> eaten, meals |-> meals]
  ELSE LET st == eatBuckets([c |-> cs[i], eaten |-> eaten, meals |-> meals], fs,
                            neighbourBuckets(gridOf(cs[i].x), gridOf(cs[i].y)), nowMs)
       IN eatLoop([cs EXCEPT ![i] = st.c], i + 1, fs, nowMs, st.eaten, st.meals)

checkEating(cs, fs, nowMs) == eatLoop(cs, 1, fs, nowMs, {}, <<>>)

removeEaten(fs, eaten) ==
  LET keep == SelectSeq([k \in 1..Len(fs) |-> k], LAMBDA k : k \notin eaten)
  IN [k \in DOMAIN keep |-> fs[keep[k]]]

---------------------------------------------------------------------------
(* Food, obstacles, nutrients, corpses *)

Infinity == 1000000000

(* params.death.nutrientDelayMs by decay level (setDecayLevel) *)
decayTable == <<2000, 4000, 6000, 8000, 10000>>
(* params.food.grow.intervalMs by grow rate (setFoodGrowRate) *)
growTable == <<6000, 4500, 3000, 2000, 1200>>
pelletsMin == 1
pelletsMax == 2
minPredationDelay == 600

isPointInBlock(blks, x, y, radius) ==
  \E k \in DOMAIN blks :
     /\ x + radius > blks[k].x /\ x - radius < blks[k].x + blockSize
     /\ y + radius > blks[k].y /\ y - radius < blks[k].y + blockSize

(* nowMs + intervalMs + (Math.random() * 2 - 1) * jitterMs, u in 1/1000 *)
nextGrowAt(g, nowMs, u) == nowMs + g.intervalMs + TDiv(u * g.jitterMs, 1000)

(* addFood without the isPointInBlock test *)
addFoodAnywhere(fs, blks, g, x, y, nowMs, u) ==
  Append(fs, [x |-> x, y |-> y, nextGrowMs |-> nextGrowAt(g, nowMs, u)])

(* addFood: the food list after the call (unchanged when rejected) *)
addFood(fs, blks, g, x, y, nowMs, u) ==
  IF isPointInBlock(blks, x, y, foodRadius) THEN fs
  ELSE Append(fs, [x |-> x, y |-> y, nextGrowMs |-> nextGrowAt(g, nowMs, u)])

removeFoodInBlock(fs, blockX, blockY) ==
  SelectSeq(fs, LAMBDA f :
    ~(/\ f.x + foodRadius > blockX /\ f.x - foodRadius < blockX + blockSize
      /\ f.y + foodRadius > blockY /\ f.y - foodRadius < blockY + blockSize))

(* release times of the dead-cell partition of update() *)
killedReleaseAt(nowMs, d) == nowMs + Max(minPredationDelay, d.nutrientDelayMs \div 2)

naturalReleaseAt(nowMs, d) == nowMs + d.nutrientDelayMs

(* nutrientOf with one schedule for every cause of death *)
(* (src is a model-only tag: the id of the cell the entry comes from)      *)
nutrientOfFlat(c, nowMs, d, count) ==
  [x |-> c.x, y |-> c.y, atMs |-> naturalReleaseAt(nowMs, d), count |-> count, src |-> c.id]

nutrientOf(c, nowMs, d, count) ==
  IF c.killed
  THEN [x |-> c.x, y |-> c.y, atMs |-> killedReleaseAt(nowMs, d), count |-> 1, src |-> c.id]
  ELSE [x |-> c.x, y |-> c.y, atMs |-> naturalReleaseAt(nowMs, d), count |-> count, src |-> c.id]

(* corpseOf giving every corpse the natural release time *)
corpseOfNatural(c, nowMs, d) ==
  [x |-> c.x, y |-> c.y, radius |-> c.genes.radius,
   removeAt |-> naturalReleaseAt(nowMs, d), src |-> c.id]

corpseOf(c, nowMs, d) ==
  [x |-> c.x, y |-> c.y, radius |-> c.genes.radius,
   removeAt |-> IF c.killed THEN killedReleaseAt(nowMs, d) ELSE naturalReleaseAt(nowMs, d),
   src |-> c.id]

(* partition that leaves no corpse for a cell eaten by a predator *)
RECURSIVE partitionNoCorpse(_, _, _, _, _, _)
partitionNoCorpse(cs, i, nowMs, d, counts, acc) ==
  IF i > Len(cs) THEN acc
  ELSE IF cs[i].alive
  THEN partitionNoCorpse(cs, i + 1, nowMs, d, counts, [acc EXCEPT !.alive = Append(@, cs[i])])
  ELSE IF cs[i].killed
  THEN partitionNoCorpse(cs, i + 1, nowMs, d, counts,
                 [acc EXCEPT !.nutrients = Append(@, nutrientOf(cs[i], nowMs, d, 1))])
  ELSE partitionNoCorpse(cs, i + 1, nowMs, d, counts,
                 [acc EXCEPT !.nutrients = Append(@, nutrientOf(cs[i], nowMs, d, counts[i])),
                             !.deadBodies = Append(@, corpseOf(cs[i], nowMs, d))])

(* the dead-cell partition of update(): counts[i] is the random pellet     *)
(* count of the i-th cell when it takes the natural-death branch           *)
RECURSIVE partition(_, _, _, _, _, _)
partition(cs, i, nowMs, d, counts, acc) ==
  IF i > Len(cs) THEN acc
  ELSE IF cs[i].alive
  THEN partition(cs, i + 1, nowMs, d, counts, [acc EXCEPT !.alive = Append(@, cs[i])])
  ELSE partition(cs, i + 1, nowMs, d, counts,
                 [acc EXCEPT !.nutrients = Append(@, nutrientOf(cs[i], nowMs, d,
                                                   IF cs[i].killed THEN 1 ELSE counts[i])),
                             !.deadBodies = Append(@, corpseOf(cs[i], nowMs, d))])

(* nutrient hatch: draws is a sequence of [jx, jy, u], one per pellet *)
dueNutrients(ns, nowMs) == SelectSeq(ns, LAMBDA n : n.atMs <= nowMs)

pelletsDue(ns, nowMs) ==
  SeqSum([k \in DOMAIN dueNutrients(ns, nowMs) |-> dueNutrients(ns, nowMs)[k].count])

RECURSIVE hatchOne(_, _, _, _, _, _, _)
hatchOne(fs, blks, g, n, k, nowMs, draws) ==
  IF k > n.count THEN fs
  ELSE LET dr == Head(draws)
           fx == Max(foodRadius, Min(W - foodRadius, n.x + dr.jx))
           fy == Max(foodRadius, Min(H - foodRadius, n.y + dr.jy))
       IN hatchOne(addFood(fs, blks, g, fx, fy, nowMs, dr.u), blks, g, n, k + 1, nowMs,
                   Tail(draws))

RECURSIVE hatch(_, _, _, _, _, _)
hatch(fs, blks, g, due, nowMs, draws) ==
  IF due = <<>> THEN fs
  ELSE hatch(hatchOne(fs, blks, g, Head(due), 1, nowMs, draws), blks, g, Tail(due), nowMs,
             SubSeq(draws, Head(due).count + 1, Len(draws)))

---------------------------------------------------------------------------
(* PetriDish.growFood *)

(* minSep = R * 2.05 *)
minSep == (foodRadius * 205) \div 100

(* candidate budding offsets (cos, sin) * dist with dist in                *)
(* [R * offsetMin, R * offsetMax) = [8.8, 11.2) px                         *)
GrowOffsets == {<<1000, 0>>, <<-1000, 0>>, <<0, 1000>>}
NoPlace == <<0, 0>>

budAt(f, off) ==
  [x |-> Max(foodRadius, Min(W - foodRadius, f.x + off[1])),
   y |-> Max(foodRadius, Min(H - foodRadius, f.y + off[2]))]

(* budOk without the separation test against the existing pellets *)
budOkNoSep(fs, blks, f, off) ==
  LET p == budAt(f, off)
  IN ~isPointInBlock(blks, p.x, p.y, foodRadius)

budOk(fs, blks, f, off) ==
  LET p == budAt(f, off)
  IN /\ \A j \in DOMAIN fs : ~((fs[j].x - p.x) * (fs[j].x - p.x) + (fs[j].y - p.y) * (fs[j].y - p.y)
                                 < minSep * minSep)
     /\ ~isPointInBlock(blks, p.x, p.y, foodRadius)

(* a draw [u, off, cu] of one budding parent is a possible outcome of the  *)
(* attempt loop: a placement needs an acceptable candidate, a failure of   *)
(* all attempts needs a rejected one                                       *)
growDrawOk(fs, blks, f, dr) ==
  IF dr.off = NoPlace THEN \E o \in GrowOffsets : ~budOk(fs, blks, f, o)
  ELSE budOk(fs, blks, f, dr.off)

(* result [foods, ok]: ok is FALSE when a draw is not a possible outcome *)
RECURSIVE growLoop(_, _, _, _, _, _, _)
growLoop(fs, i, blks, g, nowMs, draws, ok) ==
  IF i > Len(fs) THEN [foods |-> fs, ok |-> ok]
  ELSE IF nowMs < fs[i].nextGrowMs
  THEN growLoop(fs, i + 1, blks, g, nowMs, draws, ok)
  ELSE LET dr == draws[i]
           f == fs[i]
           fs1 == [fs EXCEPT ![i].nextGrowMs = nextGrowAt(g, nowMs, dr.u)]
           p == budAt(f, dr.off)
           fs2 == IF dr.off = NoPlace THEN fs1
                  ELSE addFood(fs1, blks, g, p.x, p.y, nowMs, dr.cu)
       IN growLoop(fs2, i + 1, blks, g, nowMs, draws, ok /\ growDrawOk(fs1, blks, f, dr))

growDue(fs, g, nowMs) ==
  IF g.enabled THEN {i \in DOMAIN fs : ~(nowMs < fs[i].nextGrowMs)} ELSE {}

---------------------------------------------------------------------------
(* Spawning and tools *)

priors ==
  [blue   |-> [radius |-> 6 * PX, maxSpeed |-> 190, acceleration |-> 80, friction |-> 96,
               digestionDelay |-> 300, reproThreshold |-> 70, reproCost |-> 35,
               childStartEnergy |-> 25, baselineBurn |-> 120, wallAvoidance |-> 30,
               mutationRate |-> 1000, customHue |-> Undef, customCellName |-> ""],
   purple |-> [radius |-> 7 * PX, maxSpeed |-> 165, acceleration |-> 72, friction |-> 98,
               digestionDelay |-> 320, reproThreshold |-> 85, reproCost |-> 40,
               childStartEnergy |-> 32, baselineBurn |-> 135, wallAvoidance |-> 35,
               mutationRate |-> 1000, customHue |-> Undef, customCellName |-> ""],
   red    |-> [radius |-> 6 * PX, maxSpeed |-> 185, acceleration |-> 85, friction |-> 94,
               digestionDelay |-> 260, reproThreshold |-> 110, reproCost |-> 50,
               childStartEnergy |-> 24, baselineBurn |-> 170, wallAvoidance |-> 40,
               mutationRate |-> 1000, customHue |-> Undef, customCellName |-> ""]]

(* a genome as the custom-cell form submits it: every slider out of the    *)
(* clamp range, no wallAvoidance field                                     *)
formGenes ==
  [radius |-> 3 * PX, maxSpeed |-> 300, acceleration |-> 30, friction |-> 100,
   digestionDelay |-> 100, reproThreshold |-> 40, reproCost |-> 10,
   childStartEnergy |-> 70, baselineBurn |-> 50, wallAvoidance |-> Undef,
   mutationRate |-> 5000, customHue |-> 200, customCellName |-> ""]

(* addCell: the cell list after the call. custom = TRUE is the call with   *)
(* customGenes, which skips the overlap check.                             *)
overlapsAny(cs, blks, x, y, cr) ==
  \/ \E k \in DOMAIN cs :
        (cs[k].x - x) * (cs[k].x - x) + (cs[k].y - y) * (cs[k].y - y)
          < (cs[k].genes.radius + cr) * (cs[k].genes.radius + cr)
  \/ \E k \in DOMAIN blks :
        /\ x + cr > blks[k].x /\ x - cr < blks[k].x + blockSize
        /\ y + cr > blks[k].y /\ y - cr < blks[k].y + blockSize

addCell(cs, blks, kind, x, y, genes, custom, id) ==
  IF ~custom /\ overlapsAny(cs, blks, x, y, genes.radius) THEN cs
  ELSE Append(cs, NewCell(kind, x, y, genes, InitVel, id))

(* the value addCell returns: the bare `return` of a refused spawn and the *)
(* end of the function body after the push both yield undefined           *)
addCellRet(cs, blks, kind, x, y, genes, custom) ==
  IF ~custom /\ overlapsAny(cs, blks, x, y, genes.radius) THEN "undefined"
  ELSE "undefined"

(* placeBlockAtGrid without the test for an existing block *)
placeBlockAtGridTwice(blks, fs, gx, gy) ==
  LET effectiveWidth == (W \div gridCellSize) * gridCellSize
      effectiveHeight == (H \div gridCellSize) * gridCellSize
  IN IF /\ gx >= 0 /\ gx < effectiveWidth /\ gy >= 0 /\ gy < effectiveHeight
     THEN [blocks |-> Append(blks, [x |-> gx, y |-> gy]),
           foods |-> removeFoodInBlock(fs, gx, gy), ret |-> "true"]
     ELSE [blocks |-> blks, foods |-> fs, ret |-> "false"]

(* placeBlockAtGrid: [blocks, foods] after the call and the value returned *)
placeBlockAtGrid(blks, fs, gx, gy) ==
  LET effectiveWidth == (W \div gridCellSize) * gridCellSize
      effectiveHeight == (H \div gridCellSize) * gridCellSize
  IN IF /\ gx >= 0 /\ gx < effectiveWidth /\ gy >= 0 /\ gy < effectiveHeight
        /\ ~\E k \in DOMAIN blks : blks[k].x = gx /\ blks[k].y = gy
     THEN [blocks |-> Append(blks, [x |-> gx, y |-> gy]),
           foods |-> removeFoodInBlock(fs, gx, gy), ret |-> "true"]
     ELSE [blocks |-> blks, foods |-> fs, ret |-> "false"]

killRadius == 18 * PX

killCells(cs, x, y) ==
  [k \in DOMAIN cs |->
     IF cs[k].alive /\ (cs[k].x - x) * (cs[k].x - x) + (cs[k].y - y) * (cs[k].y - y)
                         <= killRadius * killRadius
     THEN [cs[k] EXCEPT !.alive = FALSE] ELSE cs[k]]

killBlocks(blks, x, y) ==
  SelectSeq(blks, LAMBDA b :
    LET dx == b.x + gridCellSize \div 2 - x
        dy == b.y + gridCellSize \div 2 - y
    IN ~(\/ dx * dx + dy * dy <= killRadius * killRadius
         \/ (x >= b.x /\ x <= b.x + gridCellSize /\ y >= b.y /\ y <= b.y + gridCellSize)))

---------------------------------------------------------------------------
(* The world: state, initial states, operations *)

(* time steps between two animation frames, ms *)
Dts == {300, 1000}

(* the draw of a mutate() in which no shouldMutate succeeds *)
NoDraw == [k \in DrawKeys |-> NoMut]

(* per-pellet draws of the nutrient hatch: jitter in [-3, 3) px and the    *)
(* growth-timer draw                                                       *)
PelletDraws == {[jx |-> -300, jy |-> -300, u |-> -1000], [jx |-> 299, jy |-> 299, u |-> 999]}

GrowDraws ==
  {[u |-> u, off |-> o, cu |-> u] : u \in UnitDraws, o \in GrowOffsets \cup {NoPlace}}

(* the draws standing for "no call of the frame consumes this draw" *)
NoBirth == [jit |-> <<-spawnJitter, -spawnJitter>>, draw |-> NoDraw]
NoPellet == [jx |-> -300, jy |-> -300, u |-> -1000]
NoGrow == [u |-> -1000, off |-> NoPlace, cu |-> -1000]

(* auxiliary record of what the last operation did; pt and kind are the    *)
(* click position and the agent class of a tool action, ret the value the  *)
(* called method returned (removed where it is a count), cmd the command   *)
(* typed into the console, nutr0 and hatched the pending nutrients before  *)
(* and the food list after the hatch step of a frame                       *)
NoLog(op) ==
  [op |-> op, updated |-> {}, collided |-> {}, pred0 |-> <<>>, kills |-> <<>>,
   eat0 |-> <<>>, food0 |-> <<>>, food1 |-> <<>>, meals |-> <<>>, part0 |-> <<>>,
   born |-> {}, cells0 |-> <<>>, flushed |-> <<>>, pre |-> <<>>, post |-> <<>>,
   babies |-> <<>>, birth |-> NoBirth, pairs |-> <<>>,
   pt |-> <<0, 0>>, kind |-> "", ret |-> "", removed |-> 0,
   cmd |-> [w |-> <<>>, n |-> -1], nutr0 |-> <<>>, hatched |-> <<>>,
   genes |-> <<>>]

Ids(cs) == {cs[k].id : k \in DOMAIN cs}

growDefault == [enabled |-> TRUE, intervalMs |-> 6000, jitterMs |-> 400]
deathDefault == [nutrientDelayMs |-> 8000]

(* a cell that has gone without food until its energy is e *)
starved(c, e) == [c EXCEPT !.energy = e]

(* a predator whose kills have filled it to energy e: its last bite and    *)
(* its last reproduction lie at the given times                            *)
sated(c, e, biteMs, reproMs) ==
  [c EXCEPT !.energy = e, !.lastBiteMs = biteMs, !.lastReproMs = reproMs]

(* a predator genome of the custom-cell form: a high reproduction          *)
(* threshold and a low reproduction cost                                   *)
hunterGenes ==
  [radius |-> 6 * PX, maxSpeed |-> 185, acceleration |-> 85, friction |-> 94,
   digestionDelay |-> 260, reproThreshold |-> 130, reproCost |-> 20,
   childStartEnergy |-> 24, baselineBurn |-> 170, wallAvoidance |-> Undef,
   mutationRate |-> 1000, customHue |-> 0, customCellName |-> ""]

(* states built with the tools before the first frame *)
SceneEmpty ==
  [cells |-> <<>>, foods |-> <<>>, blocks |-> <<>>, nutrients |-> <<>>,
   deadBodies |-> <<>>, now |-> 0]

SceneHunt ==
  LET c1 == addCell(<<>>, <<>>, "red", 30 * PX, 12 * PX, priors.red, FALSE, 1)
      c2 == addCell(c1, <<>>, "blue", 42 * PX, 12 * PX, priors.blue, FALSE, 2)
      c3 == addCell(c2, <<>>, "purple", 30 * PX, 25 * PX, priors.purple, FALSE, 3)
      f1 == addFood(<<>>, <<>>, growDefault, 37 * PX, 19 * PX, 0, 999)
  IN [cells |-> c3, foods |-> f1, blocks |-> <<>>, nutrients |-> <<>>,
      deadBodies |-> <<>>, now |-> 0]

(* a custom prey placed among three pellets that lie in three grid cells *)
SceneFeed ==
  LET c1 == addCell(<<>>, <<>>, "blue", 24 * PX, 24 * PX, formGenes, TRUE, 1)
      f1 == addFood(<<>>, <<>>, growDefault, 20 * PX, 20 * PX, 0, -1000)
      f2 == addFood(f1, <<>>, growDefault, 28 * PX, 20 * PX, 0, 999)
      f3 == addFood(f2, <<>>, growDefault, 20 * PX, 28 * PX, 0, 999)
  IN [cells |-> c1, foods |-> f3, blocks |-> <<>>, nutrients |-> <<>>,
      deadBodies |-> <<>>, now |-> 0]

(* a dish one minute into a run: a prey about to starve, and a predator    *)
(* filled by its kills next to a prey                                      *)
SceneLate ==
  LET t0 == 60000
      c1 == addCell(<<>>, <<>>, "blue", 60 * PX, 36 * PX, priors.blue, FALSE, 1)
      c2 == addCell(c1, <<>>, "red", 60 * PX, 12 * PX, hunterGenes, TRUE, 2)
      c3 == addCell(c2, <<>>, "purple", 47 * PX, 12 * PX, priors.purple, FALSE, 3)
  IN [cells |-> [c3 EXCEPT ![1] = starved(c3[1], 100),
                           ![2] = sated(c3[2], 165 * EU, t0 - 3500, t0 - 3300)],
      foods |-> <<>>, blocks |-> <<>>, nutrients |-> <<>>, deadBodies |-> <<>>,
      now |-> t0]

(* genomes of two custom strains late in a run: one whose mutationRate has *)
(* drifted to 0, and one whose reproCost has grown past its threshold      *)
stableGenes ==
  [radius |-> 6 * PX, maxSpeed |-> 190, acceleration |-> 80, friction |-> 96,
   digestionDelay |-> 300, reproThreshold |-> 50, reproCost |-> 20,
   childStartEnergy |-> 60, baselineBurn |-> 120, wallAvoidance |-> 30,
   mutationRate |-> 0, customHue |-> 120, customCellName |-> "Custom 1"]

costlyGenes ==
  [radius |-> 6 * PX, maxSpeed |-> 185, acceleration |-> 85, friction |-> 94,
   digestionDelay |-> 260, reproThreshold |-> 50, reproCost |-> 70,
   childStartEnergy |-> 15, baselineBurn |-> 170, wallAvoidance |-> 40,
   mutationRate |-> 1000, customHue |-> 0, customCellName |-> "Custom 2"]

(* a dish one minute into a run with an obstacle: a fed agent of the       *)
(* stable strain right of the obstacle, a fed predator of the costly       *)
(* strain, and a pellet dropped 5.6 s earlier near the right wall          *)
SceneStrains ==
  LET t0 == 60000
      b1 == placeBlockAtGrid(<<>>, <<>>, 24 * PX, 0)
      c1 == addCell(<<>>, b1.blocks, "blue", 54 * PX, 12 * PX, stableGenes, TRUE, 1)
      c2 == addCell(c1, b1.blocks, "red", 12 * PX, 36 * PX, costlyGenes, TRUE, 2)
      f1 == addFood(<<>>, b1.blocks, growDefault, 66 * PX, 20 * PX, t0 - 5600, 999)
  IN [cells |-> [c2 EXCEPT ![1] = sated(c2[1], 60 * EU, 0, t0 - 5000),
                           ![2] = sated(c2[2], 60 * EU, t0 - 4000, t0 - 5000)],
      foods |-> f1, blocks |-> b1.blocks, nutrients |-> <<>>, deadBodies |-> <<>>,
      now |-> t0]

(* a dish one minute into a run in which two agents have starved: one      *)
(* 7.8 s ago touching the right side of an obstacle, leaving two pellets,  *)
(* and one 3 s ago in the open, leaving one                                *)
SceneCorpses ==
  LET t0 == 60000
      b1 == placeBlockAtGrid(<<>>, <<>>, 24 * PX, 0)
      c1 == addCell(<<>>, b1.blocks, "blue", 54 * PX, 12 * PX, stableGenes, TRUE, 101)[1]
      c2 == addCell(<<>>, b1.blocks, "blue", 12 * PX, 36 * PX, stableGenes, TRUE, 102)[1]
  IN [cells |-> <<>>, foods |-> <<>>, blocks |-> b1.blocks,
      nutrients |-> <<nutrientOf(c1, t0 - 7800, deathDefault, 2),
                      nutrientOf(c2, t0 - 3000, deathDefault, 1)>>,
      deadBodies |-> <<corpseOf(c1, t0 - 7800, deathDefault),
                       corpseOf(c2, t0 - 3000, deathDefault)>>,
      now |-> t0]

(* a dish one minute into a run: a fed agent of a custom strain whose      *)
(* every trait mutates at each birth (mutationRate 1) rests against the    *)
(* right wall, digesting (delay 800 ms) the pellets it ate 600, 300 and    *)
(* 0 ms ago                                                                *)
SceneWall ==
  LET t0 == 60000
      g == [stableGenes EXCEPT !.mutationRate = 10000, !.digestionDelay = 800,
                               !.customCellName = "Custom 3"]
      c1 == addCell(<<>>, <<>>, "blue", W - g.radius, 24 * PX, g, TRUE, 1)
      c2 == queueDigest(queueDigest(queueDigest(sated(c1[1], 60 * EU, 0, t0 - 5000),
                                                25 * EU, t0 - 600 + g.digestionDelay),
                                    25 * EU, t0 - 300 + g.digestionDelay),
                        25 * EU, t0 + g.digestionDelay)
  IN [cells |-> <<c2>>,
      foods |-> <<>>, blocks |-> <<>>, nutrients |-> <<>>, deadBodies |-> <<>>,
      now |-> t0]

Scenes ==
  {SceneEmpty, SceneHunt, SceneFeed, SceneLate, SceneStrains, SceneCorpses, SceneWall}

Init ==
  \E sc \in Scenes :
    /\ cells = sc.cells
    /\ foods = sc.foods
    /\ blocks = sc.blocks
    /\ nutrients = sc.nutrients
    /\ deadBodies = sc.deadBodies
    /\ death = deathDefault
    /\ grow = growDefault
    /\ now = sc.now
    /\ nextId = Len(sc.cells) + 1
    /\ ticks = 0
    /\ ops = 0
    /\ log = NoLog("init")
    /\ paused = FALSE
    /\ autoFood = [enabled |-> FALSE, intervalMs |-> 2000, timer |-> 0]
    /\ timers = {}
    /\ timerSeq = 1
    /\ term = <<>>
  /\ spawnFoodMode = FALSE
  /\ spawnCellMode = FALSE
  /\ mode = "spawn"

(* inputs of the tools *)
CellPts == {<<54 * PX, 12 * PX>>}
FoodPts == {<<46 * PX, 12 * PX>>}
FoodTimerDraw == 999
BlockPts == {<<48 * PX, 0>>, <<24 * PX, 0>>, <<72 * PX, 0>>}
KillPts == {<<36 * PX, 18 * PX>>, <<60 * PX, 12 * PX>>}

(* handleCanvasClick in cell spawn mode: addCell(x, y) with a prior *)
AddCell ==
  /\ ops < MaxOps
  /\ \E kind \in Kinds, pt \in CellPts :
       /\ cells' = addCell(cells, blocks, kind, pt[1], pt[2], priors[kind], FALSE, nextId)
       /\ log' = [NoLog("addCell") EXCEPT
                   !.pt = pt, !.kind = kind,
                   !.ret = addCellRet(cells, blocks, kind, pt[1], pt[2], priors[kind], FALSE)]
  /\ nextId' = nextId + 1
  /\ ops' = ops + 1
  /\ UNCHANGED <<foods, nutrients, deadBodies, blocks, death, grow, now, ticks>>
  /\ UNCHANGED panel

(* the custom-cell form: addCell(x, y, genes) at a random position *)
CustomSpawn ==
  /\ ops < MaxOps
  /\ \E type \in {"red", "blue"}, pt \in CellPts :
       /\ cells' = addCell(cells, blocks, type, pt[1], pt[2], formGenes, TRUE, nextId)
       /\ log' = [NoLog("customSpawn") EXCEPT
                   !.pt = pt, !.kind = type,
                   !.ret = addCellRet(cells, blocks, type, pt[1], pt[2], formGenes, TRUE)]
  /\ nextId' = nextId + 1
  /\ ops' = ops + 1
  /\ UNCHANGED <<foods, nutrients, deadBodies, blocks, death, grow, now, ticks>>
  /\ UNCHANGED panel

(* handleCanvasClick in food spawn mode *)
AddFood ==
  /\ ops < MaxOps
  /\ \E pt \in FoodPts :
       /\ foods' = addFood(foods, blocks, grow, pt[1], pt[2], now, FoodTimerDraw)
       /\ log' = [NoLog("addFood") EXCEPT !.pt = pt]
  /\ ops' = ops + 1
  /\ UNCHANGED <<cells, nutrients, deadBodies, blocks, death, grow, now, nextId, ticks>>
  /\ UNCHANGED panel

(* handleCanvasClick in block mode *)
PlaceBlock ==
  /\ ops < MaxOps
  /\ \E g \in BlockPts :
       LET r == placeBlockAtGrid(blocks, foods, g[1], g[2])
       IN /\ blocks' = r.blocks /\ foods' = r.foods
          /\ log' = [NoLog("placeBlock") EXCEPT !.pt = g, !.ret = r.ret]
  /\ ops' = ops + 1
  /\ UNCHANGED <<cells, nutrients, deadBodies, death, grow, now, nextId, ticks>>
  /\ UNCHANGED panel

(* the kill tool *)
KillAt ==
  /\ ops < MaxOps
  /\ \E pt \in KillPts :
       /\ cells' = killCells(cells, pt[1], pt[2])
       /\ blocks' = killBlocks(blocks, pt[1], pt[2])
       /\ log' = [NoLog("killAt") EXCEPT !.pt = pt]
  /\ ops' = ops + 1
  /\ UNCHANGED <<foods, nutrients, deadBodies, death, grow, now, nextId, ticks>>
  /\ UNCHANGED panel

(* wipeCellsOfType with a class test for "blue" that takes every agent     *)
(* that is not purple                                                      *)
wipeCellsOfTypeBlueLoose(cs, type) ==
  LET isType(c) == IF type = "purple" THEN c.kind = "purple"
                   ELSE IF type = "red" THEN c.kind = "red"
                   ELSE IF type = "blue" THEN c.kind # "purple"
                   ELSE FALSE
  IN [cells |-> SelectSeq(cs, LAMBDA c : ~isType(c)),
      removed |-> Len(SelectSeq(cs, isType))]

(* wipeCellsOfType: the kept agents in list order and the count returned;  *)
(* the three classes are unrelated, so instanceof is a test of the kind    *)
wipeCellsOfType(cs, type) ==
  LET isType(c) == IF type = "purple" THEN c.kind = "purple"
                   ELSE IF type = "red" THEN c.kind = "red"
                   ELSE IF type = "blue"
                        THEN c.kind = "blue" /\ c.kind # "purple" /\ c.kind # "red"
                   ELSE FALSE
  IN [cells |-> SelectSeq(cs, LAMBDA c : ~isType(c)),
      removed |-> Len(SelectSeq(cs, isType))]

(* the console's "wipe" *)
WipeAll ==
  /\ ops < MaxOps
  /\ cells' = <<>>
  /\ foods' = <<>>
  /\ blocks' = <<>>
  /\ nutrients' = <<>>
  /\ deadBodies' = <<>>
  /\ ops' = ops + 1
  /\ log' = NoLog("wipeAll")
  /\ UNCHANGED <<death, grow, now, nextId, ticks>>
  /\ UNCHANGED panel

(* the console's "wipe food" *)
WipeFoodOnly ==
  /\ ops < MaxOps
  /\ foods' = <<>>
  /\ nutrients' = <<>>
  /\ ops' = ops + 1
  /\ log' = NoLog("wipeFoodOnly")
  /\ UNCHANGED <<cells, deadBodies, blocks, death, grow, now, nextId, ticks>>
  /\ UNCHANGED panel

(* the console's "wipe blue|purple|red" *)
WipeCellsOfType ==
  /\ ops < MaxOps
  /\ \E type \in Kinds :
       LET r == wipeCellsOfType(cells, type)
       IN /\ cells' = r.cells
          /\ log' = [NoLog("wipeCellsOfType") EXCEPT !.kind = type, !.removed = r.removed]
  /\ ops' = ops + 1
  /\ UNCHANGED <<foods, nutrients, deadBodies, blocks, death, grow, now, nextId, ticks>>
  /\ UNCHANGED panel

DecayLevels == {1}

setDecayLevel(level) == [nutrientDelayMs |-> decayTable[Max(1, Min(5, level))]]

SetDecayLevel ==
  /\ ops < MaxOps
  /\ \E level \in DecayLevels : death' = setDecayLevel(level)
  /\ ops' = ops + 1
  /\ log' = NoLog("setDecayLevel")
  /\ UNCHANGED <<cells, foods, nutrients, deadBodies, blocks, grow, now, nextId, ticks>>
  /\ UNCHANGED panel

GrowRates == {0, 5}

(* setFoodGrowRate: [grow, foods] after the call; us[k] is the draw of the *)
(* k-th pellet's new timer                                                 *)
setFoodGrowRate(g, fs, rate, nowMs, us) ==
  LET r == Max(0, Min(5, rate))
  IN IF r = 0
     THEN [grow |-> [g EXCEPT !.enabled = FALSE],
           foods |-> [k \in DOMAIN fs |-> [fs[k] EXCEPT !.nextGrowMs = Infinity]]]
     ELSE LET g1 == [enabled |-> TRUE, intervalMs |-> growTable[r],
                     jitterMs |-> RoundDiv(growTable[r], 4)]
          IN [grow |-> g1,
              foods |-> [k \in DOMAIN fs |->
                           [fs[k] EXCEPT !.nextGrowMs = nextGrowAt(g1, nowMs, us[k])]]]

SetFoodGrowRate ==
  /\ ops < MaxOps
  /\ \E rate \in GrowRates, u \in UnitDraws :
       LET r == setFoodGrowRate(grow, foods, rate, now, [k \in DOMAIN foods |-> u])
       IN grow' = r.grow /\ foods' = r.foods
  /\ ops' = ops + 1
  /\ log' = NoLog("setFoodGrowRate")
  /\ UNCHANGED <<cells, nutrients, deadBodies, blocks, death, now, nextId, ticks>>
  /\ UNCHANGED panel

---------------------------------------------------------------------------
(* PetriDish.update: one frame *)

(* the update loop pushing a newborn onto the list it iterates *)
RECURSIVE updateLoopPush(_, _, _, _, _, _, _, _)
updateLoopPush(cs, i, nowMs, blks, vel, births, id0, babies) ==
  IF i > Len(cs) THEN [cs |-> cs, babies |-> babies]
  ELSE LET c1 == update(cs[i], nowMs, IF i \in DOMAIN vel THEN vel[i] ELSE <<0, 0>>, blks)
       IN IF i \in DOMAIN births /\ c1.alive /\ canReproduce(c1, nowMs)
          THEN LET child == reproChild(c1, births[i].jit, births[i].draw, id0 + Len(babies))
               IN updateLoopPush(Append([cs EXCEPT ![i] = reproParent(c1, nowMs)], child),
                                 i + 1, nowMs, blks, vel, births, id0, Append(babies, child))
          ELSE updateLoopPush([cs EXCEPT ![i] = c1], i + 1, nowMs, blks, vel, births, id0,
                              babies)

(* the update-and-reproduce loop; vel[i] and births[i] are the inputs of   *)
(* cell i's update and tryReproduce; the result is [cs, babies]            *)
RECURSIVE updateLoop(_, _, _, _, _, _, _, _)
updateLoop(cs, i, nowMs, blks, vel, births, id0, babies) ==
  IF i > Len(cs) THEN [cs |-> cs, babies |-> babies]
  ELSE LET c1 == update(cs[i], nowMs, IF i \in DOMAIN vel THEN vel[i] ELSE <<0, 0>>, blks)
       IN IF c1.alive /\ canReproduce(c1, nowMs)
          THEN updateLoop([cs EXCEPT ![i] = reproParent(c1, nowMs)], i + 1, nowMs, blks,
                          vel, births, id0,
                          Append(babies, reproChild(c1, births[i].jit, births[i].draw,
                                                    id0 + Len(babies))))
          ELSE updateLoop([cs EXCEPT ![i] = c1], i + 1, nowMs, blks, vel, births, id0, babies)

(* the cells that reproduce in this frame, known once the velocities are *)
parentsOf(cs, nowMs, blks, vel) ==
  {i \in DOMAIN cs : cs[i].alive /\ LET c1 == update(cs[i], nowMs, vel[i], blks)
                                    IN c1.alive /\ canReproduce(c1, nowMs)}

(* the draws of one tryReproduce: the spawn jitter and the draws of mutate *)
BirthDraws ==
  {[jit |-> <<-spawnJitter, -spawnJitter>>, draw |-> NoDraw]}
    \cup {[jit |-> <<(u * spawnJitter) \div 1000, (u * spawnJitter) \div 1000>>,
           draw |-> [k \in DrawKeys |-> u]] : u \in UnitDraws}

expireCorpses(bodies, nowMs) == SelectSeq(bodies, LAMBDA b : b.removeAt > nowMs)

(* One frame of simulationLoop with the dish running. The random draws of  *)
(* a frame (steering outcome, birth draws, pellet count of a natural       *)
(* death, hatch and growth draws) are taken equal for all agents and       *)
(* pellets of the frame.                                                   *)
Tick ==
  /\ ~paused
  /\ ticks < MaxTicks
  /\ \E dt \in Dts, v \in Vel :
     \E nowMs \in {now + dt} :
     \E vel \in {[i \in DOMAIN cells |-> v]} :
     \E parents \in {parentsOf(cells, nowMs, blocks, vel)} :
     \E bd \in IF parents = {} THEN {NoBirth}
               ELSE {b \in BirthDraws :
                       \A i \in parents :
                          DrawPossible(cells[i].genes.mutationRate, b.draw)} :
     \E upd \in {updateLoop(cells, 1, nowMs, blocks, vel,
                            [i \in DOMAIN cells |-> bd], nextId, <<>>)} :
     \E col \in {resolveCollisions(upd.cs)} :
     \E prd \in {checkPredation(col, nowMs)} :
     \E eat \in {checkEating(prd.cs, foods, nowMs)} :
     \E fs1 \in {removeEaten(foods, eat.eaten)} :
     \E cnt \in IF \A i \in DOMAIN eat.cs : eat.cs[i].alive \/ eat.cs[i].killed
                THEN {pelletsMin} ELSE pelletsMin..pelletsMax :
     \E part \in {IF eat.cs = <<>>
                  THEN [alive |-> <<>>, nutrients |-> nutrients,
                        deadBodies |-> deadBodies]
                  ELSE partition(eat.cs, 1, nowMs, death,
                                 [i \in DOMAIN eat.cs |-> cnt],
                                 [alive |-> <<>>, nutrients |-> nutrients,
                                  deadBodies |-> deadBodies])} :
     \E due \in {dueNutrients(part.nutrients, nowMs)} :
     \E pd \in IF due = <<>> THEN {NoPellet} ELSE PelletDraws :
     \E fs2 \in {hatch(fs1, blocks, grow, due, nowMs,
                       [k \in 1..pelletsDue(part.nutrients, nowMs) |-> pd])} :
     \E gdr \in IF growDue(fs2, grow, nowMs) = {} THEN {NoGrow} ELSE GrowDraws :
     \E grown \in {growLoop(fs2, 1, blocks, grow, nowMs,
                            [i \in 1..(2 * Len(fs2)) |-> gdr], TRUE)} :
        /\ grown.ok
        /\ cells' = part.alive \o upd.babies
        /\ foods' = IF grow.enabled THEN grown.foods ELSE fs2
        /\ nutrients' = SelectSeq(part.nutrients, LAMBDA n : n.atMs > nowMs)
        /\ deadBodies' = expireCorpses(part.deadBodies, nowMs)
        /\ now' = nowMs
        /\ nextId' = nextId + Len(upd.babies)
        /\ ticks' = ticks + 1
        /\ log' = [op |-> "tick",
                   updated |-> Ids(upd.cs),
                   collided |-> UNION {{col[p[2]].id, col[p[3]].id} :
                                         p \in Range(collisionPairs(upd.cs))},
                   pred0 |-> col, kills |-> prd.kills,
                   eat0 |-> prd.cs, food0 |-> foods, food1 |-> fs1,
                   meals |-> eat.meals, part0 |-> eat.cs,
                   nutr0 |-> part.nutrients, hatched |-> fs2,
                   born |-> Ids(upd.babies),
                   cells0 |-> cells,
                   flushed |-> [i \in DOMAIN cells |->
                                  IF cells[i].alive THEN processDigestion(cells[i], nowMs)
                                  ELSE cells[i]],
                   pre |-> [i \in DOMAIN cells |-> update(cells[i], nowMs, v, blocks)],
                   post |-> upd.cs,
                   babies |-> upd.babies,
                   birth |-> bd,
                   pairs |-> [k \in DOMAIN collisionPairs(upd.cs) |->
                                <<collisionPairs(upd.cs)[k][2], collisionPairs(upd.cs)[k][3]>>]]
        /\ UNCHANGED <<blocks, death, grow, ops>>
        /\ UNCHANGED panel

Next ==
  \/ Tick
  \/ AddCell
  \/ CustomSpawn
  \/ AddFood
  \/ PlaceBlock
  \/ KillAt
  \/ WipeAll
  \/ WipeFoodOnly
  \/ WipeCellsOfType
  \/ SetDecayLevel
  \/ SetFoodGrowRate

Spec == Init /\ [][Next]_vars

---------------------------------------------------------------------------
(* The controls: freeze, auto food, scenarios, console *)

(* bounds on the uses of the controls, on the timeouts set before a firing *)
(* (a later firing is not followed), and on the entities of a random spawn *)
MaxPanelOps == 2
MaxTimers == 2
MaxSpawn == 1

maxAttempts == 50

(* the state [autoFood, timers, timerSeq] after stopAutoFood *)
stopAutoFood(st) ==
  IF st.autoFood.timer # 0
  THEN [st EXCEPT !.timers = {t \in @ : t.id # st.autoFood.timer},
                  !.autoFood.timer = 0]
  ELSE st

(* startAutoFood that sets its timeout without clearing the one pending *)
startAutoFoodNoStop(st) ==
  [st EXCEPT !.timers = @ \cup {[id |-> st.timerSeq, fn |-> "autoSpawnTick",
                                 ms |-> st.autoFood.intervalMs]},
             !.autoFood.timer = st.timerSeq,
             !.timerSeq = @ + 1]

startAutoFood(st) ==
  LET s1 == stopAutoFood(st)
  IN [s1 EXCEPT !.timers = @ \cup {[id |-> s1.timerSeq, fn |-> "autoSpawnTick",
                                    ms |-> s1.autoFood.intervalMs]},
                !.autoFood.timer = s1.timerSeq,
                !.timerSeq = @ + 1]

setAutoFoodRate(st, ms) ==
  LET s1 == [st EXCEPT !.autoFood.intervalMs = ms]
  IN IF s1.autoFood.enabled THEN startAutoFood(s1) ELSE s1

(* addFoodRandom: draws[k] is the random point of the k-th attempt *)
RECURSIVE addFoodRandom(_, _, _, _, _, _)
addFoodRandom(fs, blks, g, nowMs, draws, attempt) ==
  IF attempt > maxAttempts THEN fs
  ELSE LET x == Max(foodRadius, Min(W - foodRadius, draws[attempt][1]))
           y == Max(foodRadius, Min(H - foodRadius, draws[attempt][2]))
           fs1 == addFood(fs, blks, g, x, y, nowMs, FoodTimerDraw)
       IN IF fs1 # fs THEN fs1
          ELSE addFoodRandom(fs, blks, g, nowMs, draws, attempt + 1)

(* random points of addFoodRandom: free at once, free at the second        *)
(* attempt, never free (all over the obstacle at (24, 0))                  *)
FoodDraws ==
  {[k \in 1..maxAttempts |-> <<0, 40 * PX>>],
   [k \in 1..maxAttempts |-> IF k = 1 THEN <<36 * PX, 12 * PX>> ELSE <<60 * PX, 40 * PX>>],
   [k \in 1..maxAttempts |-> <<36 * PX, 12 * PX>>]}

(* spawnRandomFood and spawnRandomCells, for at most MaxSpawn entities *)
RECURSIVE spawnRandomFood(_, _, _, _, _, _)
spawnRandomFood(fs, blks, g, nowMs, n, draws) ==
  IF n <= 0 THEN fs
  ELSE spawnRandomFood(addFoodRandom(fs, blks, g, nowMs, draws, 1), blks, g, nowMs,
                       n - 1, draws)

RECURSIVE spawnRandomCells(_, _, _, _, _)
spawnRandomCells(cs, kind, n, pt, id0) ==
  IF n <= 0 THEN cs
  ELSE spawnRandomCells(Append(cs, NewCell(kind, pt[1], pt[2], priors[kind], InitVel, id0)),
                        kind, n - 1, pt, id0 + 1)

Timers == [autoFood |-> autoFood, timers |-> timers, timerSeq |-> timerSeq]

(* the Freeze / Unfreeze button *)
TogglePause ==
  /\ ops < MaxPanelOps
  /\ paused' = ~paused
  /\ ops' = ops + 1
  /\ log' = NoLog("togglePause")
  /\ UNCHANGED <<cells, foods, nutrients, deadBodies, blocks, death, grow, now, nextId,
                 ticks, autoFood, timers, timerSeq, term>>
  /\ UNCHANGED tools

(* a frame of simulationLoop with the dish frozen: render() and            *)
(* updateStats() only                                                      *)
FrozenFrame ==
  /\ paused
  /\ log' = NoLog("frozenFrame")
  /\ UNCHANGED <<cells, foods, nutrients, deadBodies, blocks, death, grow, now, nextId,
                 ticks, ops>>
  /\ UNCHANGED panel

(* the clock button: switches auto food off, or opens the chooser *)
AutoBtnClick ==
  /\ ops < MaxPanelOps
  /\ \E st \in {IF autoFood.enabled
                THEN [stopAutoFood(Timers) EXCEPT !.autoFood.enabled = FALSE]
                ELSE Timers} :
       /\ autoFood' = st.autoFood /\ timers' = st.timers /\ timerSeq' = st.timerSeq
  /\ ops' = ops + 1
  /\ log' = NoLog("autoBtn")
  /\ UNCHANGED <<cells, foods, nutrients, deadBodies, blocks, death, grow, now, nextId,
                 ticks, paused, term>>
  /\ UNCHANGED tools

OptMs == {1000, 3000}

(* a speed button of the chooser: auto food on at that rate, and the       *)
(* pointer becomes the food tool                                           *)
AutoOptClick ==
  /\ ops < MaxPanelOps
  /\ \E ms \in OptMs :
     \E st \in {startAutoFood([setAutoFoodRate(Timers, ms) EXCEPT
                                 !.autoFood.enabled = TRUE])} :
       /\ autoFood' = st.autoFood /\ timers' = st.timers /\ timerSeq' = st.timerSeq
  /\ spawnFoodMode' = TRUE
  /\ spawnCellMode' = FALSE
  /\ mode' = "spawn"
  /\ ops' = ops + 1
  /\ log' = NoLog("autoOpt")
  /\ UNCHANGED <<cells, foods, nutrients, deadBodies, blocks, death, grow, now, nextId,
                 ticks, paused, term>>

(* a pending autoSpawnTick timeout fires *)
AutoSpawnTick ==
  /\ autoFood.enabled => timerSeq <= MaxTimers
  /\ \E t \in {u \in timers : u.fn = "autoSpawnTick"} :
       IF ~autoFood.enabled
       THEN /\ timers' = timers \ {t}
            /\ UNCHANGED <<foods, autoFood, timerSeq>>
       ELSE \E draws \in FoodDraws :
              /\ foods' = addFoodRandom(foods, blocks, grow, now, draws, 1)
              /\ timers' = (timers \ {t}) \cup
                             {[id |-> timerSeq, fn |-> "autoSpawnTick",
                               ms |-> autoFood.intervalMs]}
              /\ autoFood' = [autoFood EXCEPT !.timer = timerSeq]
              /\ timerSeq' = timerSeq + 1
  /\ log' = NoLog("autoSpawnTick")
  /\ UNCHANGED <<cells, nutrients, deadBodies, blocks, death, grow, now, nextId, ticks, ops,
                 paused, term>>
  /\ UNCHANGED tools

Scenarios == {"ecosystem", "peaceful", "empty"}
ScenarioPts == {<<30 * PX, 36 * PX>>}

(* GameManager.loadScenario: wipeAll now, the rest 100 ms later *)
LoadScenario ==
  /\ ops < MaxPanelOps
  /\ \E name \in Scenarios :
       timers' = timers \cup {[id |-> timerSeq, fn |-> name, ms |-> 100]}
  /\ timerSeq' = timerSeq + 1
  /\ cells' = <<>> /\ foods' = <<>> /\ blocks' = <<>>
  /\ nutrients' = <<>> /\ deadBodies' = <<>>
  /\ ops' = ops + 1
  /\ log' = NoLog("loadScenario")
  /\ UNCHANGED <<death, grow, now, nextId, ticks, paused, autoFood, term>>
  /\ UNCHANGED tools

(* the timeout of loadScenario fires *)
ScenarioTimeout ==
  /\ \E t \in {u \in timers : u.fn \in Scenarios}, pt \in ScenarioPts, draws \in FoodDraws :
       LET eco == t.fn = "ecosystem"
           nB == IF eco THEN Min(20, MaxSpawn)
                 ELSE IF t.fn = "peaceful" THEN Min(30, MaxSpawn) ELSE 0
           nP == IF eco THEN Min(10, MaxSpawn) ELSE 0
           nR == IF eco THEN Min(2, MaxSpawn) ELSE 0
           nF == IF eco THEN Min(50, MaxSpawn)
                 ELSE IF t.fn = "peaceful" THEN Min(40, MaxSpawn) ELSE 0
           c1 == spawnRandomCells(cells, "blue", nB, pt, nextId)
           c2 == spawnRandomCells(c1, "purple", nP, pt, nextId + nB)
           c3 == spawnRandomCells(c2, "red", nR, pt, nextId + nB + nP)
           st0 == [autoFood |-> autoFood, timers |-> timers \ {t}, timerSeq |-> timerSeq]
           st == IF eco THEN startAutoFood([st0 EXCEPT !.autoFood.enabled = TRUE]) ELSE st0
       IN /\ cells' = c3
          /\ nextId' = nextId + nB + nP + nR
          /\ foods' = spawnRandomFood(foods, blocks, grow, now, nF, draws)
          /\ autoFood' = st.autoFood /\ timers' = st.timers /\ timerSeq' = st.timerSeq
  /\ log' = NoLog("scenarioTimeout")
  /\ UNCHANGED <<nutrients, deadBodies, blocks, death, grow, now, ticks, ops, paused, term>>
  /\ UNCHANGED tools

(* console commands as the words and the number typed (n = -1: none);     *)
(* the last eight match no form of the grammar                             *)
Commands ==
  {[w |-> <<"spawn", "food">>, n |-> 0], [w |-> <<"spawn", "red">>, n |-> 1],
   [w |-> <<"grow", "rate">>, n |-> 0], [w |-> <<"decay">>, n |-> 1],
   [w |-> <<"auto", "food">>, n |-> 3],
   [w |-> <<"wipe">>, n |-> -1], [w |-> <<"wipe", "food">>, n |-> -1],
   [w |-> <<"wipe", "blue">>, n |-> -1], [w |-> <<"help">>, n |-> -1],
   [w |-> <<"spawn", "food">>, n |-> -1], [w |-> <<"spawn", "green">>, n |-> 2],
   [w |-> <<"grow", "rate">>, n |-> 6], [w |-> <<"decay">>, n |-> 0],
   [w |-> <<"auto", "food">>, n |-> 4], [w |-> <<"wipe", "green">>, n |-> -1],
   [w |-> <<"freeze">>, n |-> -1], [w |-> <<>>, n |-> -1]}

(* execCommand with the decay form taking the levels 0 to 5 *)
matchCommandDecay0(cmd) ==
  LET w == cmd.w
      n == cmd.n
  IN IF Len(w) = 2 /\ w[1] = "spawn" /\ w[2] \in {"food"} \cup Kinds /\ n >= 0
     THEN "spawn"
     ELSE IF w = <<"grow", "rate">> /\ n \in 0..5 THEN "grow"
     ELSE IF w = <<"decay">> /\ n \in 0..5 THEN "decay"
     ELSE IF w = <<"auto", "food">> /\ n \in 1..3 THEN "auto"
     ELSE IF /\ Len(w) >= 1 /\ w[1] = "wipe" /\ n = -1
             /\ (Len(w) = 1 \/ (Len(w) = 2 /\ w[2] \in {"food"} \cup Kinds))
     THEN "wipe"
     ELSE IF w = <<"help">> /\ n = -1 THEN "help"
     ELSE "unknown"

(* the form of the grammar the command matches: the regular expressions    *)
(* of execCommand, tried in the order of the code                          *)
matchCommand(cmd) ==
  LET w == cmd.w
      n == cmd.n
  IN IF Len(w) = 2 /\ w[1] = "spawn" /\ w[2] \in {"food"} \cup Kinds /\ n >= 0
     THEN "spawn"
     ELSE IF w = <<"grow", "rate">> /\ n \in 0..5 THEN "grow"
     ELSE IF w = <<"decay">> /\ n \in 1..5 THEN "decay"
     ELSE IF w = <<"auto", "food">> /\ n \in 1..3 THEN "auto"
     ELSE IF /\ Len(w) >= 1 /\ w[1] = "wipe" /\ n = -1
             /\ (Len(w) = 1 \/ (Len(w) = 2 /\ w[2] \in {"food"} \cup Kinds))
     THEN "wipe"
     ELSE IF w = <<"help">> /\ n = -1 THEN "help"
     ELSE "unknown"

(* execCommand, typed before any other control is used *)
ExecCommand ==
  /\ ops < MaxOps
  /\ \E cmd \in Commands, pt \in ScenarioPts, draws \in {d \in FoodDraws : d[1][1] = 0} :
     LET w == cmd.w
         n == cmd.n
         form == matchCommand(cmd)
         same == /\ UNCHANGED <<cells, foods, nutrients, deadBodies, blocks, death, grow,
                                nextId>>
                 /\ UNCHANGED <<autoFood, timers, timerSeq>>
     IN /\ log' = [NoLog("execCommand") EXCEPT !.cmd = cmd]
        /\ IF form = "auto"
           THEN spawnFoodMode' = TRUE /\ spawnCellMode' = FALSE /\ mode' = "spawn"
           ELSE UNCHANGED tools
        /\ IF form = "spawn"
           THEN LET k == Min(Max(1, Min(500, n)), MaxSpawn)
                IN /\ IF w[2] = "food"
                      THEN /\ foods' = spawnRandomFood(foods, blocks, grow, now, k, draws)
                           /\ UNCHANGED <<cells, nextId>>
                      ELSE /\ cells' = spawnRandomCells(cells, w[2], k, pt, nextId)
                           /\ nextId' = nextId + k
                           /\ UNCHANGED foods
                   /\ term' = Append(term, "spawned")
                   /\ UNCHANGED <<nutrients, deadBodies, blocks, death, grow>>
                   /\ UNCHANGED <<autoFood, timers, timerSeq>>
           ELSE IF form = "grow"
           THEN LET r == setFoodGrowRate(grow, foods, n, now,
                                         [j \in DOMAIN foods |-> FoodTimerDraw])
                IN /\ grow' = r.grow /\ foods' = r.foods
                   /\ term' = Append(term, IF n = 0 THEN "food growth disabled"
                                           ELSE "food growth rate set")
                   /\ UNCHANGED <<cells, nutrients, deadBodies, blocks, death, nextId>>
                   /\ UNCHANGED <<autoFood, timers, timerSeq>>
           ELSE IF form = "decay"
           THEN /\ death' = setDecayLevel(n)
                /\ term' = Append(term, "decay set")
                /\ UNCHANGED <<cells, foods, nutrients, deadBodies, blocks, grow, nextId>>
                /\ UNCHANGED <<autoFood, timers, timerSeq>>
           ELSE IF form = "auto"
           THEN LET ms == <<3000, 2000, 1000>>[Max(1, Min(3, n))]
                    st == startAutoFood([setAutoFoodRate(Timers, ms) EXCEPT
                                           !.autoFood.enabled = TRUE])
                IN /\ autoFood' = st.autoFood /\ timers' = st.timers
                   /\ timerSeq' = st.timerSeq
                   /\ term' = Append(term, "auto food set")
                   /\ UNCHANGED <<cells, foods, nutrients, deadBodies, blocks, death, grow,
                                  nextId>>
           ELSE IF form = "wipe"
           THEN /\ IF Len(w) = 1
                   THEN /\ cells' = <<>> /\ foods' = <<>> /\ blocks' = <<>>
                        /\ nutrients' = <<>> /\ deadBodies' = <<>>
                        /\ term' = Append(term, "wiped all")
                   ELSE IF w[2] = "food"
                   THEN /\ foods' = <<>> /\ nutrients' = <<>>
                        /\ term' = Append(term, "wiped food only")
                        /\ UNCHANGED <<cells, blocks, deadBodies>>
                   ELSE /\ cells' = wipeCellsOfType(cells, w[2]).cells
                        /\ term' = Append(term, "wiped cells")
                        /\ UNCHANGED <<foods, nutrients, deadBodies, blocks>>
                /\ UNCHANGED <<death, grow, nextId>>
                /\ UNCHANGED <<autoFood, timers, timerSeq>>
           ELSE IF form = "help"
           THEN /\ term' = term \o <<"help", "help", "help">>
                /\ same
           ELSE /\ term' = Append(term, "unknown command")
                /\ same
  /\ ops' = ops + 1
  /\ UNCHANGED <<now, ticks, paused>>

NextPanel ==
  \/ Tick
  \/ FrozenFrame
  \/ TogglePause
  \/ AutoBtnClick
  \/ AutoOptClick
  \/ AutoSpawnTick
  \/ LoadScenario
  \/ ScenarioTimeout
  \/ ExecCommand

(* the dish of the strains scene with the controls untouched *)
InitPanel ==
  /\ cells = SceneStrains.cells
  /\ foods = SceneStrains.foods
  /\ blocks = SceneStrains.blocks
  /\ nutrients = <<>>
  /\ deadBodies = <<>>
  /\ death = deathDefault
  /\ grow = growDefault
  /\ now = SceneStrains.now
  /\ nextId = Len(SceneStrains.cells) + 1
  /\ ticks = 0
  /\ ops = 0
  /\ log = NoLog("init")
  /\ paused = FALSE
  /\ autoFood = [enabled |-> FALSE, intervalMs |-> 2000, timer |-> 0]
  /\ timers = {}
  /\ timerSeq = 1
  /\ term = <<>>
  /\ spawnFoodMode = FALSE
  /\ spawnCellMode = FALSE
  /\ mode = "spawn"

SpecPanel == InitPanel /\ [][NextPanel]_vars

---------------------------------------------------------------------------
(* The tool buttons *)

(* toggleSpawnMode that leaves the other spawn mode as it is *)
toggleSpawnModeKeepOther(st, m) ==
  IF m = "food"
  THEN [st EXCEPT !.mode = "spawn", !.spawnFoodMode = ~st.spawnFoodMode]
  ELSE IF m = "cell"
  THEN [st EXCEPT !.mode = "spawn", !.spawnCellMode = ~st.spawnCellMode]
  ELSE st

(* toggleSpawnMode(m) on the tool state st: the kill and block tools go    *)
(* off, the named spawn mode flips, and when it is now on the other spawn  *)
(* mode goes off                                                           *)
toggleSpawnMode(st, m) ==
  IF m = "food"
  THEN [mode |-> "spawn",
        spawnFoodMode |-> ~st.spawnFoodMode,
        spawnCellMode |-> IF ~st.spawnFoodMode THEN FALSE ELSE st.spawnCellMode]
  ELSE IF m = "cell"
  THEN [mode |-> "spawn",
        spawnCellMode |-> ~st.spawnCellMode,
        spawnFoodMode |-> IF ~st.spawnCellMode THEN FALSE ELSE st.spawnFoodMode]
  ELSE st

(* the Spawn Food button *)
SpawnFoodBtnClick ==
  /\ \E st \in {toggleSpawnMode([mode |-> mode, spawnFoodMode |-> spawnFoodMode,
                                  spawnCellMode |-> spawnCellMode], "food")} :
       /\ mode' = st.mode
       /\ spawnFoodMode' = st.spawnFoodMode
       /\ spawnCellMode' = st.spawnCellMode
  /\ log' = NoLog("spawnFoodBtn")
  /\ UNCHANGED <<cells, foods, nutrients, deadBodies, blocks, death, grow, now, nextId,
                 ticks, ops>>
  /\ UNCHANGED <<paused, autoFood, timers, timerSeq, term>>

(* the Spawn Cell button: leaves the kill and block tools; switches the    *)
(* cell tool off when it is on, else opens the chooser                     *)
SpawnCellBtnClick ==
  /\ mode' = "spawn"
  /\ spawnCellMode' = FALSE
  /\ UNCHANGED spawnFoodMode
  /\ log' = NoLog("spawnCellBtn")
  /\ UNCHANGED <<cells, foods, nutrients, deadBodies, blocks, death, grow, now, nextId,
                 ticks, ops>>
  /\ UNCHANGED <<paused, autoFood, timers, timerSeq, term>>

(* a species button of the chooser *)
CellOptClick ==
  /\ mode' = "spawn"
  /\ spawnCellMode' = TRUE
  /\ spawnFoodMode' = FALSE
  /\ log' = NoLog("cellOpt")
  /\ UNCHANGED <<cells, foods, nutrients, deadBodies, blocks, death, grow, now, nextId,
                 ticks, ops>>
  /\ UNCHANGED <<paused, autoFood, timers, timerSeq, term>>

(* the Kill button toggles the kill tool *)
KillBtnClick ==
  /\ mode' = IF mode # "kill" THEN "kill" ELSE "spawn"
  /\ spawnFoodMode' = FALSE
  /\ spawnCellMode' = FALSE
  /\ log' = NoLog("killBtn")
  /\ UNCHANGED <<cells, foods, nutrients, deadBodies, blocks, death, grow, now, nextId,
                 ticks, ops>>
  /\ UNCHANGED <<paused, autoFood, timers, timerSeq, term>>

(* the Block button toggles the block tool *)
BlockBtnClick ==
  /\ mode' = IF mode # "block" THEN "block" ELSE "spawn"
  /\ spawnFoodMode' = FALSE
  /\ spawnCellMode' = FALSE
  /\ log' = NoLog("blockBtn")
  /\ UNCHANGED <<cells, foods, nutrients, deadBodies, blocks, death, grow, now, nextId,
                 ticks, ops>>
  /\ UNCHANGED <<paused, autoFood, timers, timerSeq, term>>

(* activateCustomCellSpawn: a saved custom cell is chosen from the list *)
ActivateCustomCellSpawn ==
  /\ spawnCellMode' = TRUE
  /\ spawnFoodMode' = FALSE
  /\ mode' = "spawn"
  /\ log' = NoLog("activateCustomCellSpawn")
  /\ UNCHANGED <<cells, foods, nutrients, deadBodies, blocks, death, grow, now, nextId,
                 ticks, ops>>
  /\ UNCHANGED <<paused, autoFood, timers, timerSeq, term>>

NextTools ==
  \/ SpawnFoodBtnClick
  \/ SpawnCellBtnClick
  \/ CellOptClick
  \/ KillBtnClick
  \/ BlockBtnClick
  \/ ActivateCustomCellSpawn
  \/ AutoOptClick
  \/ ExecCommand

SpecTools == InitPanel /\ [][NextTools]_vars

---------------------------------------------------------------------------
(* Cell.mutate as a function of its random draws *)

(* Genomes a parent can carry: the three species priors and a custom      *)
(* strain of a larger radius and a higher rate, each through the           *)
(* constructor's clampGenes.                                               *)
InitMutate ==
  /\ \E g \in {priors.blue, priors.purple, priors.red,
                [stableGenes EXCEPT !.radius = 8 * PX, !.mutationRate = 5000]} :
       cells = addCell(<<>>, <<>>, "blue", 36 * PX, 24 * PX, g, TRUE, 1)
  /\ foods = <<>>
  /\ blocks = <<>>
  /\ nutrients = <<>>
  /\ deadBodies = <<>>
  /\ death = deathDefault
  /\ grow = growDefault
  /\ now = 0
  /\ nextId = 2
  /\ ticks = 0
  /\ ops = 0
  /\ log = NoLog("init")
  /\ paused = FALSE
  /\ autoFood = [enabled |-> FALSE, intervalMs |-> 2000, timer |-> 0]
  /\ timers = {}
  /\ timerSeq = 1
  /\ term = <<>>
  /\ spawnFoodMode = FALSE
  /\ spawnCellMode = FALSE
  /\ mode = "spawn"

(* One call Cell.mutate(genes): shouldMutate() is evaluated once per       *)
(* trait, so the traits that mutate form any subset S; the perturbation    *)
(* draws are u, and e is the draw of the hue and of the rate itself.       *)
CallMutate ==
  /\ ops < MaxOps
  /\ \E S \in SUBSET MutableTraits, u \in UnitDraws :
       \E e \in {NoMut, u} :
         LET draw == [k \in DrawKeys |->
                        IF k \in S THEN u
                        ELSE IF k \in MutableTraits THEN NoMut ELSE e]
             g == cells[1].genes
         IN /\ DrawPossible(g.mutationRate, draw)
            /\ log' = [NoLog("mutate") EXCEPT
                         !.birth = [jit |-> <<0, 0>>, draw |-> draw],
                         !.genes = mutate(g, draw)]
  /\ ops' = ops + 1
  /\ UNCHANGED <<cells, foods, nutrients, deadBodies, blocks, death, grow, now,
                 nextId, ticks>>
  /\ UNCHANGED panel

SpecMutate == InitMutate /\ [][CallMutate]_vars

---------------------------------------------------------------------------
(* Properties *)

(* the last step was a frame; log then describes its stages *)
IsTick == log.op = "tick"

(* index of the cell with identity id in cs *)
IndexOfId(cs, id) == CHOOSE k \in DOMAIN cs : cs[k].id = id

Entries(q, P(_)) == Cardinality({k \in DOMAIN q : P(q[k])})

(* the ranges the documentation publishes, in the units of the model *)
Published ==
  [radius           |-> <<400, 900>>,
   maxSpeed         |-> <<110, 260>>,
   acceleration     |-> <<45, 140>>,
   friction         |-> <<93, 99>>,
   digestionDelay   |-> <<150, 1200>>,
   reproThreshold   |-> <<50, 130>>,
   reproCost        |-> <<20, 70>>,
   childStartEnergy |-> <<15, 60>>,
   baselineBurn     |-> <<80, 200>>,
   wallAvoidance    |-> <<0, 100>>,
   mutationRate     |-> <<0, 10000>>]

GenesPublished(g) ==
  \A t \in DOMAIN Published : Published[t][1] <= g[t] /\ g[t] <= Published[t][2]

(* C1: in every reachable state every agent, however it came into the      *)
(* dish, has each numeric genome trait inside its published range.         *)
C1_GenomeWithinRanges ==
  \A k \in DOMAIN cells : GenesPublished(cells[k].genes)

(* C1 witness: a child of a custom-spawned parent: its hue has mutated     *)
(* away from the form's value and one of its traits sits on a range bound. *)
C1_Witness ==
  /\ IsTick
  /\ \E k \in DOMAIN cells :
       /\ cells[k].id \in log.born
       /\ cells[k].genes.customHue \notin {Undef, formGenes.customHue, hunterGenes.customHue}
       /\ \E t \in DOMAIN Published : cells[k].genes[t] \in {Published[t][1], Published[t][2]}

(* C2: every living agent has 0 <= energy <= maxEnergy, with               *)
(* maxEnergy = max(100, reproThreshold + 40).                              *)
C2_EnergyWithinBounds ==
  \A k \in DOMAIN cells :
     cells[k].alive =>
       /\ cells[k].maxEnergy = Max(100, cells[k].genes.reproThreshold + 40) * EU
       /\ 0 <= cells[k].energy
       /\ cells[k].energy <= cells[k].maxEnergy

(* C3: a child born in a frame joins the agent collection only as the      *)
(* frame's last step: in that frame it is not updated, not a collision     *)
(* partner, not killed, does not eat and is not seen by the partition; it  *)
(* ends the frame at the tail of the collection, as constructed.           *)
C3_ChildrenJoinLast ==
  IsTick =>
    \A id \in log.born :
       /\ id \notin log.updated
       /\ id \notin log.collided
       /\ id \notin Ids(log.pred0) \cup Ids(log.eat0) \cup Ids(log.part0)
       /\ \A k \in DOMAIN log.kills : log.kills[k].pred # id /\ log.kills[k].prey # id
       /\ \A m \in DOMAIN log.meals : log.meals[m].cell # id
       /\ Entries(cells, LAMBDA c : c.id = id) = 1
       /\ LET k == IndexOfId(cells, id)
          IN /\ k > Len(cells) - Cardinality(log.born)
             /\ cells[k].alive /\ ~cells[k].killed
             /\ cells[k].digestQueue = <<>>
             /\ cells[k].energy = Min(cells[k].maxEnergy,
                                      cells[k].genes.childStartEnergy * EU)

(* C3 witness: a frame with a birth in which the child lies within         *)
(* collision distance of a living agent of the collection.                 *)
C3_Witness ==
  /\ IsTick
  /\ \E k \in DOMAIN cells, j \in DOMAIN cells :
       /\ cells[k].id \in log.born
       /\ cells[j].id \in log.updated
       /\ dist2(cells[k], cells[j])
            < (cells[k].genes.radius + cells[j].genes.radius)
              * (cells[k].genes.radius + cells[j].genes.radius)

(* C4: the partition removes every agent with alive = false in the same    *)
(* frame and leaves exactly one pending nutrient and exactly one corpse    *)
(* for it; the living stay; the frame ends with living agents only.        *)
C4_DeadPartitioned ==
  IsTick =>
    /\ \A k \in DOMAIN cells : cells[k].alive
    /\ \A i \in DOMAIN log.part0 :
         LET c == log.part0[i]
         IN IF c.alive
            THEN /\ Entries(cells, LAMBDA x : x = c) = 1
                 /\ Entries(nutrients, LAMBDA n : n.src = c.id) = 0
                 /\ Entries(deadBodies, LAMBDA b : b.src = c.id) = 0
            ELSE /\ Entries(cells, LAMBDA x : x.id = c.id) = 0
                 /\ Entries(nutrients, LAMBDA n : n.src = c.id) = 1
                 /\ Entries(deadBodies, LAMBDA b : b.src = c.id) = 1

(* C4 witness: a frame whose partition met an agent killed by a predator   *)
(* in that frame, next to agents that live on.                             *)
C4_Witness ==
  /\ IsTick
  /\ \E i \in DOMAIN log.part0, j \in DOMAIN log.part0 :
       /\ ~log.part0[i].alive /\ log.part0[i].killed
       /\ log.pred0[i].alive
       /\ log.part0[j].alive

(* a predator entitled to bite in the pass at time now *)
Hunting(p) ==
  /\ p.alive /\ p.kind = "red"
  /\ now - p.lastBiteMs >= 450
  /\ 10 * p.energy <= 8 * p.maxEnergy

(* q is placed in the 3x3 grid neighbourhood of p *)
InNeighbourhood(p, q) ==
  /\ inGrid(gridOf(p.x), gridOf(p.y)) /\ inGrid(gridOf(q.x), gridOf(q.y))
  /\ Abs(gridOf(q.x) - gridOf(p.x)) <= 1 /\ Abs(gridOf(q.y) - gridOf(p.y)) <= 1

(* q is a living non-predator within contact distance of p *)
Biteable(p, q) ==
  /\ q.alive /\ q.kind # "red"
  /\ InNeighbourhood(p, q)
  /\ dist2(p, q) <= (p.genes.radius + q.genes.radius) * (p.genes.radius + q.genes.radius)

(* in the pass of the last frame the cell with identity qid fell to a      *)
(* predator other than pid, so it was no longer living at pid's turn       *)
TakenByOther(qid, pid) ==
  \E k \in DOMAIN log.kills : log.kills[k].prey = qid /\ log.kills[k].pred # pid

(* the effects of a kill, with the digestion delay taken from the prey     *)
(* (ofPrey) or from the predator                                           *)
KillEffects(ofPrey) ==
  IsTick =>
    \A i \in DOMAIN log.pred0 :
       LET p == log.pred0[i]
       IN (/\ Hunting(p)
           /\ \E j \in DOMAIN log.pred0 :
                j # i /\ Biteable(p, log.pred0[j]) /\ ~TakenByOther(log.pred0[j].id, p.id))
          => \E j \in DOMAIN log.pred0 :
               /\ j # i /\ Biteable(p, log.pred0[j])
               /\ Entries(log.kills, LAMBDA e : e.pred = p.id) = 1
               /\ Entries(log.kills, LAMBDA e : e.pred = p.id /\ e.prey = log.pred0[j].id) = 1
               /\ ~log.eat0[j].alive /\ log.eat0[j].killed
               /\ log.eat0[i].lastBiteMs = now
               /\ log.eat0[i].digestQueue
                    = Append(p.digestQueue,
                             [amount |-> 35 * EU,
                              atMs |-> now + IF ofPrey THEN log.pred0[j].genes.digestionDelay
                                             ELSE p.genes.digestionDelay])

(* C5 as amended: a living predator off bite cooldown with energy <= 80%   *)
(* of maxEnergy that has, at its turn in the pass, a living non-predator   *)
(* within contact distance in its 3x3 neighbourhood kills one such prey:   *)
(* the prey gets alive = false and killed = true, the last-bite time       *)
(* becomes now, and exactly one credit of 35 is queued on the predator,    *)
(* ready at now + the predator's own digestionDelay.                       *)
C5_KillCreditAtPredatorDelay == KillEffects(FALSE)

(* C5 as stated: the same, with the credit ready at now + the prey's       *)
(* digestionDelay.                                                         *)
C5_KillCreditAtPreyDelay == KillEffects(TRUE)

(* C5 witness: a kill in which predator and prey differ in digestionDelay. *)
C5_Witness ==
  /\ IsTick
  /\ \E k \in DOMAIN log.kills :
       log.pred0[IndexOfId(log.pred0, log.kills[k].pred)].genes.digestionDelay
         # log.pred0[IndexOfId(log.pred0, log.kills[k].prey)].genes.digestionDelay

(* C6: in one predation pass each predator kills at most one prey; a       *)
(* predator with now - lastBite < 450 ms or energy > 80% of maxEnergy      *)
(* kills none; only living non-predators are taken, each at most once.     *)
C6_OneKillPerPredator ==
  IsTick =>
    /\ \A k, l \in DOMAIN log.kills :
         k # l => /\ log.kills[k].pred # log.kills[l].pred
                  /\ log.kills[k].prey # log.kills[l].prey
    /\ \A k \in DOMAIN log.kills :
         LET p == log.pred0[IndexOfId(log.pred0, log.kills[k].pred)]
             q == log.pred0[IndexOfId(log.pred0, log.kills[k].prey)]
         IN /\ p.alive /\ p.kind = "red"
            /\ now - p.lastBiteMs >= 450
            /\ 10 * p.energy <= 8 * p.maxEnergy
            /\ q.alive /\ ~q.killed /\ q.kind # "red"
    /\ \A i \in DOMAIN log.pred0 :
         (~log.pred0[i].alive /\ log.pred0[i].killed)
           => \A k \in DOMAIN log.kills : log.kills[k].prey # log.pred0[i].id

(* C6 witness: a pass in which a predator with two living prey within      *)
(* contact distance killed one of them and the other lives on.             *)
C6_Witness ==
  /\ IsTick
  /\ \E i, j, l \in DOMAIN log.pred0 :
       /\ j # l
       /\ Hunting(log.pred0[i])
       /\ Biteable(log.pred0[i], log.pred0[j])
       /\ Biteable(log.pred0[i], log.pred0[l])
       /\ ~log.eat0[j].alive /\ log.eat0[l].alive

(* C7: only agents that are living at the feeding step and are not         *)
(* predators consume food: a predator or a dead agent removes no pellet    *)
(* and receives no feeding credit.                                         *)
C7_OnlyLivingPreyEat ==
  IsTick =>
    /\ \A m \in DOMAIN log.meals :
         LET c == log.eat0[IndexOfId(log.eat0, log.meals[m].cell)]
         IN c.alive /\ c.kind # "red"
    /\ \A i \in DOMAIN log.eat0 :
         (~log.eat0[i].alive \/ log.eat0[i].kind = "red")
           => log.part0[i].digestQueue = log.eat0[i].digestQueue

(* the pellets (indices of log.food0) the feeding pass of the last frame   *)
(* removed, and the meals of one agent in the order it took them           *)
EatenFoods == {log.meals[m].food : m \in DOMAIN log.meals}

MealsOf(id) == SelectSeq(log.meals, LAMBDA e : e.cell = id)

(* fs without the pellets whose index is in S *)
Without(fs, S) ==
  LET keep == SelectSeq([k \in DOMAIN fs |-> k], LAMBDA k : k \notin S)
  IN [k \in DOMAIN keep |-> fs[keep[k]]]

(* C8: in one feeding pass a pellet is consumed by at most one agent;      *)
(* every pellet removed corresponds to exactly one credit (25, ready at    *)
(* now + the eater's digestionDelay) queued on exactly one agent, and no   *)
(* credit is queued for a pellet that stays.                               *)
C8_OneCreditPerPellet ==
  IsTick =>
    /\ \A m, n \in DOMAIN log.meals : m # n => log.meals[m].food # log.meals[n].food
    /\ EatenFoods \subseteq DOMAIN log.food0
    /\ log.food1 = Without(log.food0, EatenFoods)
    /\ Len(log.food0) - Len(log.food1) = Len(log.meals)
    /\ \A m \in DOMAIN log.meals : log.meals[m].cell \in Ids(log.eat0)
    /\ \A i \in DOMAIN log.eat0 :
         log.part0[i].digestQueue
           = log.eat0[i].digestQueue
             \o [k \in DOMAIN MealsOf(log.eat0[i].id) |->
                   [amount |-> 25 * EU,
                    atMs |-> now + log.eat0[i].genes.digestionDelay]]

(* C8 witness: a pass in which two non-predators were both within contact  *)
(* distance of one pellet, and the pellet was eaten.                       *)
C8_Witness ==
  /\ IsTick
  /\ \E i, j \in DOMAIN log.eat0, k \in EatenFoods :
       /\ i # j
       /\ log.eat0[i].kind # "red" /\ log.eat0[j].kind # "red"
       /\ inReach(log.eat0[i], log.food0[k])
       /\ inReach(log.eat0[j], log.food0[k])

(* C9: in one feeding pass each agent consumes at most one pellet, also    *)
(* when several pellets in different grid cells of its neighbourhood are   *)
(* within contact distance.                                                *)
C9_OnePelletPerAgent ==
  IsTick => \A i \in DOMAIN log.eat0 : Len(MealsOf(log.eat0[i].id)) <= 1

(* C10: a dead agent with killed = true schedules a nutrient of exactly 1  *)
(* pellet ready at now + max(600, nutrientDelayMs * 0.5); any other dead   *)
(* agent one of 1 or 2 pellets ready at now + nutrientDelayMs; the corpse  *)
(* is removed at the nutrient's ready time.                                *)
C10_NutrientSchedule ==
  IsTick =>
    \A i \in DOMAIN log.part0 :
       LET c == log.part0[i]
       IN ~c.alive =>
            \E n \in DOMAIN nutrients, b \in DOMAIN deadBodies :
               /\ nutrients[n].src = c.id /\ deadBodies[b].src = c.id
               /\ nutrients[n].x = c.x /\ nutrients[n].y = c.y
               /\ IF c.killed
                  THEN /\ nutrients[n].count = 1
                       /\ nutrients[n].atMs = now + Max(600, death.nutrientDelayMs \div 2)
                  ELSE /\ nutrients[n].count \in {1, 2}
                       /\ nutrients[n].atMs = now + death.nutrientDelayMs
               /\ deadBodies[b].removeAt = nutrients[n].atMs

(* C10 witness: a frame whose partition met an agent that starved and      *)
(* scheduled 2 pellets for it.                                             *)
C10_Witness ==
  /\ IsTick
  /\ \E i \in DOMAIN log.part0, n \in DOMAIN nutrients :
       /\ ~log.part0[i].alive /\ ~log.part0[i].killed
       /\ log.pred0[i].energy <= 0
       /\ nutrients[n].src = log.part0[i].id
       /\ nutrients[n].count = 2

(* how often the collision pass of the last frame handled the unordered    *)
(* pair {i, j} (indices of log.post)                                       *)
TimesHandled(i, j) ==
  Cardinality({k \in DOMAIN log.pairs : log.pairs[k] \in {<<i, j>>, <<j, i>>}})

(* i and j are two living agents in the same or in adjacent grid cells at  *)
(* the start of the collision pass                                         *)
CollisionPartners(i, j) ==
  /\ i # j
  /\ log.post[i].alive /\ log.post[j].alive
  /\ InNeighbourhood(log.post[i], log.post[j])

(* C11: in one collision pass every unordered pair of living agents that   *)
(* lie in the same or in adjacent grid cells is handled exactly once, no   *)
(* other pair is handled, and an agent that is in no such pair leaves the  *)
(* pass as it entered it.                                                  *)
C11_EachPairOnce ==
  IsTick =>
    /\ \A i, j \in DOMAIN log.post : CollisionPartners(i, j) => TimesHandled(i, j) = 1
    /\ \A k \in DOMAIN log.pairs : CollisionPartners(log.pairs[k][1], log.pairs[k][2])
    /\ \A i \in DOMAIN log.post :
         (\A j \in DOMAIN log.post : ~CollisionPartners(i, j)) => log.pred0[i] = log.post[i]

(* C11 witness: a pass with two living agents in different, adjacent grid  *)
(* cells within the soft range, so that the scan meets the pair from both  *)
(* buckets, and the pass changed their velocities.                         *)
C11_Witness ==
  /\ IsTick
  /\ \E i, j \in DOMAIN log.post :
       /\ CollisionPartners(i, j)
       /\ <<gridOf(log.post[i].x), gridOf(log.post[i].y)>>
            # <<gridOf(log.post[j].x), gridOf(log.post[j].y)>>
       /\ <<log.pred0[i].vx, log.pred0[i].vy>> # <<log.post[i].vx, log.post[i].vy>>
       /\ <<log.pred0[j].vx, log.pred0[j].vy>> # <<log.post[j].vx, log.post[j].vy>>

(* the entries of queue q that are ready at the time of the last frame *)
ReadyEntries(q) == SelectSeq(q, LAMBDA it : it.atMs <= now)

(* C12: the digestion flush of a living agent's update at time now         *)
(* releases exactly the entries (A, T) with T <= now and keeps the others  *)
(* queued, in order; an agent with one ready entry gains exactly           *)
(* min(A, maxEnergy - energyBefore); with several ready entries (all       *)
(* amounts are positive) the gains add up to min(sum, maxEnergy -          *)
(* energyBefore); with none the energy is unchanged.                       *)
C12_DigestionFlush ==
  IsTick =>
    \A i \in DOMAIN log.cells0 :
       LET c == log.cells0[i]
           f == log.flushed[i]
           ready == ReadyEntries(c.digestQueue)
           total == SeqSum([k \in DOMAIN ready |-> ready[k].amount])
       IN c.alive =>
            /\ f.digestQueue = SelectSeq(c.digestQueue, LAMBDA it : it.atMs > now)
            /\ \A k \in DOMAIN f.digestQueue : f.digestQueue[k].atMs > now
            /\ Len(f.digestQueue) + Len(ready) = Len(c.digestQueue)
            /\ (ready = <<>>) => f.energy = c.energy
            /\ (Len(ready) = 1) =>
                 f.energy = c.energy + Min(ready[1].amount, c.maxEnergy - c.energy)
            /\ (ready # <<>>) => f.energy = c.energy + Min(total, c.maxEnergy - c.energy)
            /\ f.genes = c.genes /\ f.x = c.x /\ f.y = c.y

(* C12 witness: a flush that releases ready entries against the cap: the   *)
(* agent gains less than the amounts released.                             *)
C12_Witness ==
  /\ IsTick
  /\ \E i \in DOMAIN log.cells0 :
       LET c == log.cells0[i]
           ready == ReadyEntries(c.digestQueue)
       IN /\ c.alive /\ ready # <<>>
          /\ c.energy < c.maxEnergy
          /\ log.flushed[i].energy = c.maxEnergy
          /\ log.flushed[i].energy - c.energy
               < SeqSum([k \in DOMAIN ready |-> ready[k].amount])

---------------------------------------------------------------------------
(* Reproduction. log.pre[i] is agent i after its update and before its     *)
(* tryReproduce, log.post[i] the same agent after tryReproduce, log.babies *)
(* the children returned in the frame, in the order of their parents.      *)

SpeciesCooldown == [blue |-> 800, purple |-> 1000, red |-> 900]
SpeciesFloor == [blue |-> 20, purple |-> 28, red |-> 24]

EnergyReached(c) == c.energy >= c.genes.reproThreshold * EU
CooldownOver(c, t) == t - c.lastReproMs >= SpeciesCooldown[c.kind]
ViableAfterCost(c) == c.energy - c.genes.reproCost * EU >= SpeciesFloor[c.kind] * EU

(* the agents whose tryReproduce was called in the last frame *)
Called == {i \in DOMAIN log.pre : log.cells0[i].alive /\ log.pre[i].alive}

(* the agents whose tryReproduce returned a child, in list order: the      *)
(* k-th child of the frame belongs to the k-th of them                     *)
Succeeded(i) == i \in Called /\ log.post[i] # log.pre[i]
ParentIdx == SelectSeq([i \in DOMAIN log.pre |-> i], Succeeded)

(* C13: tryReproduce succeeds iff energy >= reproThreshold, the species    *)
(* cooldown (800/1000/900 ms) has elapsed and energy - reproCost is at     *)
(* least the species floor (20/28/24); then the parent pays exactly        *)
(* reproCost, its lastReproMs becomes now, and the child has the parent's  *)
(* kind, genome mutate(parent genome) and energy                           *)
(* min(child maxEnergy, child childStartEnergy).                           *)
C13_ReproductionContract ==
  IsTick =>
    /\ Len(log.babies) = Len(ParentIdx)
    /\ \A i \in Called :
         Succeeded(i) <=> /\ EnergyReached(log.pre[i])
                          /\ CooldownOver(log.pre[i], now)
                          /\ ViableAfterCost(log.pre[i])
    /\ \A k \in DOMAIN ParentIdx :
         LET p == log.pre[ParentIdx[k]]
             q == log.post[ParentIdx[k]]
             child == log.babies[k]
         IN /\ q = [p EXCEPT !.energy = p.energy - p.genes.reproCost * EU,
                             !.lastReproMs = now]
            /\ child.kind = p.kind
            /\ child.genes = mutate(p.genes, log.birth.draw)
            /\ child.maxEnergy = Max(100, child.genes.reproThreshold + 40) * EU
            /\ child.energy = Min(child.maxEnergy, child.genes.childStartEnergy * EU)

(* a frame with a birth in which another agent, above its threshold and    *)
(* past its cooldown, was refused because the cost would leave it below    *)
(* the floor                                                               *)
C13_Witness ==
  /\ IsTick
  /\ Len(log.babies) >= 1
  /\ \E i \in Called :
       /\ EnergyReached(log.pre[i]) /\ CooldownOver(log.pre[i], now)
       /\ ~ViableAfterCost(log.pre[i])
       /\ log.post[i] = log.pre[i]



(* every tryReproduce of the last frame inside the cooldown window was     *)
(* refused, and every one outside it with enough energy succeeded          *)
CooldownRespected ==
  IsTick =>
    \A i \in Called :
      /\ ~CooldownOver(log.pre[i], now) => log.post[i] = log.pre[i]
      /\ (CooldownOver(log.pre[i], now) /\ EnergyReached(log.pre[i])
             /\ ViableAfterCost(log.pre[i]))
           => log.post[i].lastReproMs = now

(* lastReproMs of an agent changes only by a birth of the step, to the     *)
(* time of the step, at least one cooldown after its previous value        *)
BirthsApart ==
  \A i \in DOMAIN cells : \A j \in DOMAIN cells' :
    (cells'[j].id = cells[i].id /\ cells'[j].lastReproMs # cells[i].lastReproMs)
      => /\ log'.op = "tick" /\ Len(log'.babies) >= 1
         /\ cells'[j].lastReproMs = now'
         /\ now' - cells[i].lastReproMs >= SpeciesCooldown[cells[i].kind]

(* C14: after a successful tryReproduce at t every call on the same parent *)
(* at t' with t' - t < cooldown returns null whatever its energy, a call   *)
(* at t' - t >= cooldown with the energy conditions met succeeds, and two  *)
(* births of one parent are at least one cooldown apart.                   *)
C14_CooldownWindow == [] CooldownRespected /\ [][BirthsApart]_vars

(* second frame: a parent that gave birth in the first frame, 300 ms ago,  *)
(* has the energy for another birth and is refused                         *)
C14_Witness ==
  /\ IsTick /\ ticks = 2
  /\ \E i \in Called :
       /\ now - log.pre[i].lastReproMs = 300
       /\ EnergyReached(log.pre[i]) /\ ViableAfterCost(log.pre[i])
       /\ log.post[i] = log.pre[i]
       /\ \E j \in DOMAIN cells : cells[j].id = log.pre[i].id

(* the agents of the last frame whose tryReproduce had to fail *)
Ineligible ==
  {i \in Called : \/ ~EnergyReached(log.pre[i])
                  \/ ~CooldownOver(log.pre[i], now)
                  \/ ~ViableAfterCost(log.pre[i])}

(* C15: a failing tryReproduce (energy below threshold, cooldown not       *)
(* elapsed, or energy after cost below the floor) leaves the parent's      *)
(* energy, lastReproMs, position, velocity, genome and digestion queue     *)
(* unchanged, and creates no child.                                        *)
C15_FailureChangesNothing ==
  IsTick =>
    /\ \A i \in Ineligible :
         /\ log.post[i].energy = log.pre[i].energy
         /\ log.post[i].lastReproMs = log.pre[i].lastReproMs
         /\ log.post[i].x = log.pre[i].x /\ log.post[i].y = log.pre[i].y
         /\ log.post[i].vx = log.pre[i].vx /\ log.post[i].vy = log.pre[i].vy
         /\ log.post[i].genes = log.pre[i].genes
         /\ log.post[i].digestQueue = log.pre[i].digestQueue
    /\ Len(log.babies) = Cardinality(Called \ Ineligible)
    /\ \A k \in DOMAIN log.babies :
         \A i \in Ineligible : log.babies[k].id # log.pre[i].id

(* a frame in which one agent, a parent of the frame before, fails on the  *)
(* threshold inside its cooldown window and another fails on the floor     *)
(* alone                                                                   *)
C15_Witness ==
  /\ IsTick
  /\ \E i \in Ineligible : ~EnergyReached(log.pre[i]) /\ ~CooldownOver(log.pre[i], now)
  /\ \E i \in Ineligible : EnergyReached(log.pre[i]) /\ CooldownOver(log.pre[i], now)

---------------------------------------------------------------------------
(* Zero mutation rate. A rate below 1e-4 is a rate <= 0 in the unit of     *)
(* mutationRate (1/10000).                                                 *)

(* the outcomes of every Math.random() of one mutate(), possible or not *)
AllDraws == {b.draw : b \in BirthDraws}

(* C16: mutate(g) with g.mutationRate = 0 returns a genome equal to g in   *)
(* every numeric trait, mutationRate still 0, customHue and customCellName *)
(* unchanged. Stated for the genome of every agent with mutationRate 0,  *)
(* for the genome of every agent with its mutationRate set to 0, and for *)
(* children born of zero-rate parents.                                     *)
C16_ZeroRateCopies ==
  /\ \A i \in DOMAIN cells : \A d \in AllDraws :
       LET g0 == [cells[i].genes EXCEPT !.mutationRate = 0]
       IN /\ \A t \in MutableTraits : mutate(g0, d)[t] = g0[t]
          /\ mutate(g0, d).mutationRate = 0
          /\ mutate(g0, d).customHue = g0.customHue
          /\ mutate(g0, d).customCellName = g0.customCellName
  /\ IsTick =>
       \A k \in DOMAIN ParentIdx :
         log.pre[ParentIdx[k]].genes.mutationRate = 0
           => log.babies[k].genes = log.pre[ParentIdx[k]].genes

(* a birth of a zero-rate parent carrying customHue and customCellName *)
C16_Witness ==
  /\ IsTick
  /\ \E k \in DOMAIN ParentIdx :
       LET g == log.pre[ParentIdx[k]].genes
       IN /\ g.mutationRate = 0 /\ g.customHue # Undef /\ g.customCellName # ""
          /\ log.babies[k].genes = mutate(g, log.birth.draw)
          /\ \E j \in DOMAIN cells : cells[j].id = log.babies[k].id

(* C17: zero mutation rate is absorbing along a lineage: once a genome has *)
(* mutationRate below 1e-4, every descendant has mutationRate exactly 0    *)
(* and all other traits, customHue and customCellName identical to the     *)
(* ancestor's. The agents named "Custom 1" are the lineage of the          *)
(* zero-rate agent of SceneStrains.                                        *)
C17_ZeroRateAbsorbing ==
  /\ \A i \in DOMAIN cells :
       cells[i].genes.customCellName = "Custom 1" => cells[i].genes = stableGenes
  /\ IsTick =>
       \A k \in DOMAIN ParentIdx :
         LET g == log.pre[ParentIdx[k]].genes
         IN g.mutationRate <= 0
              => /\ log.babies[k].genes.mutationRate = 0
                 /\ log.babies[k].genes = [g EXCEPT !.mutationRate = 0]

(* second frame: an agent born in the first frame of a zero-rate parent    *)
(* (it has never reproduced) has a child itself, and parent and child are  *)
(* alive with the founder's genome                                         *)
C17_Witness ==
  /\ IsTick /\ ticks = 2
  /\ \E k \in DOMAIN ParentIdx :
       LET p == log.pre[ParentIdx[k]]
       IN /\ p.genes = stableGenes /\ p.lastReproMs = 0
          /\ log.babies[k].genes = stableGenes
          /\ \E j \in DOMAIN cells : cells[j].id = log.babies[k].id
          /\ \E j \in DOMAIN cells : cells[j].id = p.id /\ cells[j].genes = stableGenes

---------------------------------------------------------------------------
(* Mutation boundedness. Products are in 1e-6 of the trait's unit.         *)

TraitRangePct ==
  [radius |-> 10, maxSpeed |-> 12, acceleration |-> 15, friction |-> 5,
   digestionDelay |-> 20, reproThreshold |-> 15, reproCost |-> 15,
   childStartEnergy |-> 20, baselineBurn |-> 12, wallAvoidance |-> 15]

(* traitRange * (0.5 + 0.5 r) in 1e-6, rounded up *)
Reach(t, r) == (TraitRangePct[t] * (10000 + r) + 1) \div 2

(* clamp(parentValue * (1 + d)) for d = -Reach and d = +Reach, stored as   *)
(* mutate stores it                                                        *)
Stored(t, x) ==
  LET c == Max(CLAMP[t][1] * 1000000, Min(CLAMP[t][2] * 1000000, x))
  IN IF t = "radius" THEN PX * ((c + PX * 500000) \div (PX * 1000000))
     ELSE (c + 500000) \div 1000000
LowestChild(t, pv, r) == Stored(t, pv * (1000000 - Reach(t, r)))
HighestChild(t, pv, r) == Stored(t, pv * (1000000 + Reach(t, r)))

(* the traits of child genome h allowed for parent genome g *)
WithinReach(g, h) ==
  \A t \in MutableTraits :
    \/ h[t] = g[t]
    \/ /\ LowestChild(t, g[t], g.mutationRate) <= h[t]
       /\ h[t] <= HighestChild(t, g[t], g.mutationRate)
       /\ CLAMP[t][1] <= h[t] /\ h[t] <= CLAMP[t][2]
       /\ t = "radius" => h[t] % PX = 0

(* rates tried on every agent's genome: 0.0001, 0.1, 0.5, 1 *)
TriedRates == {1, 1000, 5000, 10000}

---------------------------------------------------------------------------
(* Genome immutability *)

(* an agent present before and after a step has the same genome *)
GenomeKept ==
  \A i \in DOMAIN cells : \A j \in DOMAIN cells' :
    cells'[j].id = cells[i].id => cells'[j].genes = cells[i].genes

(* within a frame the genome of every agent is the same before its update, *)
(* after its update and after its tryReproduce                             *)
GenomeKeptInFrame ==
  IsTick =>
    \A i \in DOMAIN log.cells0 :
      /\ log.pre[i].genes = log.cells0[i].genes
      /\ log.post[i].genes = log.cells0[i].genes

(* C19: an agent's genome is fixed at construction: no tick step and no    *)
(* reproduction changes a trait of an existing agent's genome; mutate      *)
(* builds the child's genome as a copy and leaves the parent's alone.      *)
C19_GenomeFixed == [] GenomeKeptInFrame /\ [][GenomeKept]_vars

(* a frame in which a parent had a child whose genome differs from its     *)
(* own, and the parent lives on with the genome it had before the frame    *)
C19_Witness ==
  /\ IsTick
  /\ \E k \in DOMAIN ParentIdx :
       /\ log.babies[k].genes # log.pre[ParentIdx[k]].genes
       /\ \E j \in DOMAIN cells :
            /\ cells[j].id = log.cells0[ParentIdx[k]].id
            /\ cells[j].genes = log.cells0[ParentIdx[k]].genes

---------------------------------------------------------------------------
(* Obstacles *)

(* the bounding square of agent c and the footprint of block b share an    *)
(* area                                                                    *)
Overlaps(c, b) ==
  /\ c.x + c.genes.radius > b.x /\ c.x - c.genes.radius < b.x + 24 * PX
  /\ c.y + c.genes.radius > b.y /\ c.y - c.genes.radius < b.y + 24 * PX

(* the agents updated in the last frame and living after their update *)
Updated == {i \in DOMAIN log.pre : log.cells0[i].alive /\ log.pre[i].alive}

(* C20: after every agent update, for any set of placed obstacles          *)
(* (adjacent ones and ones at the arena edge included), no living agent    *)
(* overlaps an obstacle footprint: its bounding square [x-r, x+r] x        *)
(* [y-r, y+r] intersects no 24x24 block.                                   *)
C20_NoObstacleOverlap ==
  IsTick =>
    \A i \in Updated : \A k \in DOMAIN blocks : ~Overlaps(log.pre[i], blocks[k])

---------------------------------------------------------------------------
(* Arena bounds *)

(* the centre of agent c is at least its radius away from every wall *)
InArena(c) ==
  /\ c.genes.radius <= c.x /\ c.x <= W - c.genes.radius
  /\ c.genes.radius <= c.y /\ c.y <= H - c.genes.radius

(* C21: agents stay inside the arena: after every tick every living        *)
(* agent's centre satisfies r <= x <= W - r and r <= y <= H - r, also      *)
(* after the obstacle push-out of its update and after the positional      *)
(* separation of the collision resolver.                                   *)
C21_AgentsInsideArena ==
  IsTick =>
    /\ \A i \in Updated : InArena(log.pre[i])
    /\ \A i \in DOMAIN log.pred0 : log.pred0[i].alive => InArena(log.pred0[i])
    /\ \A i \in DOMAIN cells : cells[i].alive => InArena(cells[i])

---------------------------------------------------------------------------
(* Food and obstacles *)

(* the square of half-side 4 px around (x, y) shares an area with block b *)
PelletOnBlock(x, y, b) ==
  /\ x + 4 * PX > b.x /\ x - 4 * PX < b.x + 24 * PX
  /\ y + 4 * PX > b.y /\ y - 4 * PX < b.y + 24 * PX

NoPelletOnBlock ==
  \A i \in DOMAIN foods : \A k \in DOMAIN blocks :
    ~PelletOnBlock(foods[i].x, foods[i].y, blocks[k])

(* a manual placement at pt is refused over an obstacle and adds one       *)
(* pellet at pt otherwise                                                  *)
AddFoodStep ==
  log'.op = "addFood" =>
    LET pt == log'.pt
    IN
      IF \E k \in DOMAIN blocks : PelletOnBlock(pt[1], pt[2], blocks[k])
      THEN foods' = foods
      ELSE /\ Len(foods') = Len(foods) + 1
           /\ SubSeq(foods', 1, Len(foods)) = foods
           /\ foods'[Len(foods')].x = pt[1] /\ foods'[Len(foods')].y = pt[2]

(* a new obstacle removes the pellets it overlaps and no other *)
PlaceBlockStep ==
  (log'.op = "placeBlock" /\ Len(blocks') = Len(blocks) + 1) =>
    foods' = SelectSeq(foods, LAMBDA f :
                         ~PelletOnBlock(f.x, f.y, blocks'[Len(blocks')]))

CellTaken(g) == \E k \in DOMAIN blocks : blocks[k].x = g[1] /\ blocks[k].y = g[2]
CellOutside(g) == ~(0 <= g[1] /\ g[1] < W /\ 0 <= g[2] /\ g[2] < H)

PlaceBlockContract ==
  log'.op = "placeBlock" =>
    LET g == log'.pt
    IN /\ IF CellTaken(g) \/ CellOutside(g)
          THEN log'.ret = "false" /\ blocks' = blocks /\ foods' = foods
          ELSE /\ log'.ret = "true"
               /\ blocks' = Append(blocks, [x |-> g[1], y |-> g[2]])
               /\ foods' = SelectSeq(foods, LAMBDA f :
                             ~PelletOnBlock(f.x, f.y, [x |-> g[1], y |-> g[2]]))
       /\ UNCHANGED <<cells, nutrients, deadBodies>>

OneBlockPerCell ==
  \A j, k \in DOMAIN blocks : j # k => blocks[j] # blocks[k]

(* C23: placeBlockAtGrid returns false and changes nothing when an         *)
(* obstacle already occupies the grid cell or the cell is outside the      *)
(* arena; otherwise it adds exactly one obstacle, removes exactly the      *)
(* pellets overlapping the new footprint, leaves agents and other          *)
(* obstacles unchanged and returns true; no two obstacles ever occupy the  *)
(* same grid cell.                                                         *)
C23_PlaceBlockContract == [] OneBlockPerCell /\ [][PlaceBlockContract]_vars

(* a placement on the cell of an existing obstacle has just been refused *)
C23_Witness ==
  /\ log.op = "placeBlock" /\ log.ret = "false"
  /\ CellTaken(log.pt)
  /\ Len(blocks) = 1 /\ foods # <<>>

---------------------------------------------------------------------------
(* Spawning *)

(* the disc of radius r at pt overlaps a living agent or an obstacle *)
SpawnBlocked(pt, r) ==
  \/ \E k \in DOMAIN cells :
       /\ cells[k].alive
       /\ (cells[k].x - pt[1]) * (cells[k].x - pt[1])
            + (cells[k].y - pt[2]) * (cells[k].y - pt[2])
          < (cells[k].genes.radius + r) * (cells[k].genes.radius + r)
  \/ \E k \in DOMAIN blocks :
       /\ pt[1] + r > blocks[k].x /\ pt[1] - r < blocks[k].x + 24 * PX
       /\ pt[2] + r > blocks[k].y /\ pt[2] - r < blocks[k].y + 24 * PX

(* what addCell returns when it spawns: the value it returns for the same  *)
(* click in an empty dish                                                  *)
SpawnedReturn(kind, pt) ==
  addCellRet(<<>>, <<>>, kind, pt[1], pt[2], priors[kind], FALSE)

(* a blocked spawn without genome override changes no agent; a spawn with  *)
(* genome override always appends one agent at the point                   *)
SpawnEffect ==
  /\ (log'.op = "addCell" /\ SpawnBlocked(log'.pt, priors[log'.kind].radius))
       => cells' = cells
  /\ (log'.op = "addCell" /\ cells' # cells)
       => /\ Len(cells') = Len(cells) + 1 /\ SubSeq(cells', 1, Len(cells)) = cells
          /\ cells'[Len(cells')].kind = log'.kind
          /\ cells'[Len(cells')].x = log'.pt[1] /\ cells'[Len(cells')].y = log'.pt[2]
  /\ log'.op = "customSpawn"
       => /\ Len(cells') = Len(cells) + 1 /\ SubSeq(cells', 1, Len(cells)) = cells
          /\ cells'[Len(cells')].kind = log'.kind
          /\ cells'[Len(cells')].x = log'.pt[1] /\ cells'[Len(cells')].y = log'.pt[2]

(* a blocked spawn returns something else than a successful spawn does *)
SpawnFailureTold ==
  (log'.op = "addCell" /\ SpawnBlocked(log'.pt, priors[log'.kind].radius))
    => log'.ret # SpawnedReturn(log'.kind, log'.pt)

(* C24: spawning an agent without genome override where its disc would     *)
(* overlap another living agent or an obstacle is a no-op on the agent     *)
(* collection and returns a failure indicator distinguishable from the     *)
(* result of a successful spawn; with a genome override the overlap check  *)
(* is skipped and the agent is always added.                               *)
C24_SpawnContract == [][SpawnEffect /\ SpawnFailureTold]_vars

---------------------------------------------------------------------------
(* The kill tool *)

(* squared distance from pt to the footprint of block b (0 inside it) *)
FootprintDist2(pt, b) ==
  LET dx == Max(0, Max(b.x - pt[1], pt[1] - (b.x + 24 * PX)))
      dy == Max(0, Max(b.y - pt[2], pt[2] - (b.y + 24 * PX)))
  IN dx * dx + dy * dy

InKillRadius(pt, c) ==
  (c.x - pt[1]) * (c.x - pt[1]) + (c.y - pt[2]) * (c.y - pt[2]) <= (18 * PX) * (18 * PX)

(* the living agents within the radius die without the killed flag, no     *)
(* other agent changes, and food, corpses and pending nutrients are kept   *)
KillAgentsEffect ==
  log'.op = "killAt" =>
    /\ cells' = [k \in DOMAIN cells |->
                   IF cells[k].alive /\ InKillRadius(log'.pt, cells[k])
                   THEN [cells[k] EXCEPT !.alive = FALSE] ELSE cells[k]]
    /\ UNCHANGED <<foods, deadBodies, nutrients>>

(* exactly the obstacles whose footprint meets the kill circle are deleted *)
KillObstaclesEffect ==
  log'.op = "killAt" =>
    blocks' = SelectSeq(blocks, LAMBDA b :
                FootprintDist2(log'.pt, b) > (18 * PX) * (18 * PX))

(* C25: killAt(point) sets alive = false, without the killed flag, on      *)
(* every living agent whose centre is within the kill radius (18) of the   *)
(* point, and deletes every obstacle whose footprint intersects the kill   *)
(* circle or contains the point; agents outside the radius, obstacles not  *)
(* intersecting it, food, corpses and pending nutrients are unchanged.     *)
C25_KillAtContract == [][KillAgentsEffect /\ KillObstaclesEffect]_vars

---------------------------------------------------------------------------
(* Bulk clears *)

WipeAllEffect ==
  log'.op = "wipeAll" =>
    /\ cells' = <<>> /\ foods' = <<>> /\ blocks' = <<>>
    /\ deadBodies' = <<>> /\ nutrients' = <<>>

WipeFoodOnlyEffect ==
  log'.op = "wipeFoodOnly" =>
    /\ foods' = <<>> /\ nutrients' = <<>>
    /\ UNCHANGED <<cells, blocks, deadBodies>>


WipeCellsOfTypeEffect ==
  log'.op = "wipeCellsOfType" =>
    /\ cells' = SelectSeq(cells, LAMBDA c : c.kind # log'.kind)
    /\ log'.removed = Len(SelectSeq(cells, LAMBDA c : c.kind = log'.kind))
    /\ UNCHANGED <<foods, blocks, deadBodies, nutrients>>

(* C26: wipeAll empties the agent, food, obstacle, corpse and              *)
(* pending-nutrient collections; wipeFoodOnly empties food and pending     *)
(* nutrients and leaves agents, obstacles and corpses as they were;        *)
(* wipeCellsOfType(kind) removes exactly the agents of that kind, returns  *)
(* how many it removed, and leaves the other agents in their order and     *)
(* every other collection as they were                                     *)
C26_WipeContract ==
  [][WipeAllEffect /\ WipeFoodOnlyEffect /\ WipeCellsOfTypeEffect]_vars

(* a wipe of one kind has removed an agent and kept two of other kinds,    *)
(* with food and an obstacle in the dish                                   *)
C26_Witness ==
  /\ log.op = "wipeCellsOfType"
  /\ log.removed >= 1
  /\ Len(cells) >= 1
  /\ \E k \in DOMAIN cells : cells[k].kind # "purple"
  /\ foods # <<>>
  /\ blocks # <<>>

---------------------------------------------------------------------------
(* Freeze *)

(* the steps a user's use of a control causes: the control itself and the  *)
(* delayed part of a scenario load                                         *)
UserOps == {"togglePause", "autoBtn", "autoOpt", "loadScenario", "scenarioTimeout",
            "execCommand", "addCell", "customSpawn", "addFood", "placeBlock", "killAt",
            "wipeAll", "wipeFoodOnly", "wipeCellsOfType", "setDecayLevel",
            "setFoodGrowRate"}

(* no frame of a frozen dish runs update() *)
NoTickWhilePaused == log'.op = "tick" => ~paused

(* C27: while the simulation is paused the frames render but never tick,   *)
(* and unless the user acts the agents, food, obstacles, corpses and       *)
(* pending nutrients stay as they are until it is un-paused                *)
C27_FrozenWhilePaused ==
  [][/\ NoTickWhilePaused
     /\ (paused /\ log'.op \notin UserOps) =>
          UNCHANGED <<cells, foods, blocks, deadBodies, nutrients>>]_vars

---------------------------------------------------------------------------
(* Auto food *)

(* the autoSpawnTick timeouts set and neither fired nor cleared *)
PendingSpawns(ts) == {t \in ts : t.fn = "autoSpawnTick"}

OnePendingIffEnabled ==
  /\ Cardinality(PendingSpawns(timers)) <= 1
  /\ autoFood.enabled <=> PendingSpawns(timers) # {}

(* a firing adds no pellet or one at the end of the list, and leaves one   *)
(* new timeout of the current interval pending                             *)
FiringEffect ==
  log'.op = "autoSpawnTick" =>
    /\ autoFood.enabled
    /\ \/ foods' = foods
       \/ /\ Len(foods') = Len(foods) + 1
          /\ SubSeq(foods', 1, Len(foods)) = foods
    /\ \E t \in timers' :
         /\ PendingSpawns(timers') = {t}
         /\ t \notin timers
         /\ t.ms = autoFood'.intervalMs
         /\ autoFood'.intervalMs = autoFood.intervalMs

(* C28: under any interleaving of start, stop, rate change, scenario load  *)
(* and timer firings at most one auto-spawn timer is pending, one is       *)
(* pending exactly when auto-spawn is enabled, each firing adds at most    *)
(* one pellet and schedules exactly one next firing at the current         *)
(* interval, and no firing happens while auto-spawn is stopped             *)
C28_AutoSpawnTimer == []OnePendingIffEnabled /\ [][FiringEffect]_vars

(* the timer a speed button started has fired, added a pellet and set the  *)
(* next timeout                                                            *)
C28_Witness ==
  /\ log.op = "autoSpawnTick"
  /\ autoFood.enabled
  /\ autoFood.timer = 2
  /\ Len(foods) = 2
  /\ timers = {[id |-> 2, fn |-> "autoSpawnTick", ms |-> autoFood.intervalMs]}

---------------------------------------------------------------------------
(* Console *)

Targets == {"food", "blue", "purple", "red"}

(* the forms of the console grammar: spawn <target> N, grow rate 0-5,      *)
(* decay 1-5, auto food 1-3, wipe [target], help                           *)
InGrammar(cmd) ==
  \/ cmd.w \in {<<"spawn", t>> : t \in Targets} /\ cmd.n >= 0
  \/ cmd.w = <<"grow", "rate">> /\ cmd.n \in 0..5
  \/ cmd.w = <<"decay">> /\ cmd.n \in 1..5
  \/ cmd.w = <<"auto", "food">> /\ cmd.n \in 1..3
  \/ cmd.w \in {<<"wipe">>} \cup {<<"wipe", t>> : t \in Targets} /\ cmd.n = -1
  \/ cmd.w = <<"help">> /\ cmd.n = -1

UnknownCommandEffect ==
  (log'.op = "execCommand" /\ ~InGrammar(log'.cmd)) =>
    /\ term' = Append(term, "unknown command")
    /\ UNCHANGED <<cells, foods, blocks, deadBodies, nutrients>>
    /\ UNCHANGED <<grow, death, autoFood, timers, paused>>

(* C29: a console command that matches no form of the grammar only adds    *)
(* an "unknown command" line to the terminal: agents, food, obstacles,     *)
(* corpses, pending nutrients and the growth, decay and auto-food          *)
(* configuration are unchanged                                             *)
C29_UnknownCommand == [][UnknownCommandEffect]_vars

(* "decay 0" has been answered with the unknown-command line in a dish     *)
(* with agents, food and an obstacle, after a frame                        *)
C29_Witness ==
  /\ log.op = "execCommand"
  /\ log.cmd = [w |-> <<"decay">>, n |-> 0]
  /\ term = <<"unknown command">>
  /\ cells # <<>> /\ foods # <<>> /\ blocks # <<>>
  /\ ticks >= 1

---------------------------------------------------------------------------
(* Nutrient hatch *)

(* the pending nutrients at the hatch step of the last frame whose ready   *)
(* time had come, and the others                                           *)
DueAtHatch == SelectSeq(log.nutr0, LAMBDA n : n.atMs <= now)
NotDueAtHatch == SelectSeq(log.nutr0, LAMBDA n : n.atMs > now)

(* the pellets the hatch step added *)
Hatched == SubSeq(log.hatched, Len(log.food1) + 1, Len(log.hatched))

(* p lies inside the arena and within 3 px of the death position of n,     *)
(* itself brought inside the arena                                         *)
NearDeath(p, n) ==
  /\ p.x >= 4 * PX /\ p.x <= W - 4 * PX /\ p.y >= 4 * PX /\ p.y <= H - 4 * PX
  /\ Abs(p.x - Max(4 * PX, Min(W - 4 * PX, n.x))) <= 3 * PX
  /\ Abs(p.y - Max(4 * PX, Min(H - 4 * PX, n.y))) <= 3 * PX

DueRemovedOthersKept == IsTick => nutrients = NotDueAtHatch

HatchedNearDeath ==
  IsTick =>
    /\ SubSeq(log.hatched, 1, Len(log.food1)) = log.food1
    /\ \A k \in DOMAIN Hatched :
         \E j \in DOMAIN DueAtHatch : NearDeath(Hatched[k], DueAtHatch[j])

HatchedAtMostCount ==
  IsTick =>
    \A j \in DOMAIN DueAtHatch :
      Cardinality({k \in DOMAIN Hatched : NearDeath(Hatched[k], DueAtHatch[j])})
        <= DueAtHatch[j].count

HatchedCount ==
  IsTick =>
    \A j \in DOMAIN DueAtHatch :
      Cardinality({k \in DOMAIN Hatched : NearDeath(Hatched[k], DueAtHatch[j])})
        = DueAtHatch[j].count

(* C30: at the hatch step of a frame every pending nutrient whose ready    *)
(* time is <= now is removed from the pending list and adds exactly its    *)
(* pellet count of new pellets, each within 3 px of the death position and *)
(* inside the arena; the nutrients whose ready time is > now are kept as   *)
(* they are and add nothing                                                *)
C30_HatchStep == DueRemovedOthersKept /\ HatchedNearDeath /\ HatchedCount

---------------------------------------------------------------------------
(* Placement of a newborn *)

(* C31: a child returned by tryReproduce has its centre at least its own   *)
(* radius away from every arena edge, whatever the parent's position, the  *)
(* jitter and the mutation of the radius trait                             *)
C31_ChildInsideArena ==
  IsTick =>
    \A k \in DOMAIN log.babies :
      LET b == log.babies[k]
      IN /\ b.genes.radius <= b.x /\ b.x <= W - b.genes.radius
         /\ b.genes.radius <= b.y /\ b.y <= H - b.genes.radius

---------------------------------------------------------------------------
(* Budding *)

(* the pellets the growth step of the last frame started from that were    *)
(* due, and the pellets it added                                           *)
DueParents == {i \in DOMAIN log.hatched : log.hatched[i].nextGrowMs <= now}
Buds == SubSeq(foods, Len(log.hatched) + 1, Len(foods))

Dist2(p, q) == (p.x - q.x) * (p.x - q.x) + (p.y - q.y) * (p.y - q.y)

(* b lies where a bud of parent f can land: 8.8 to 11.2 px away before the *)
(* position is brought inside the arena, so at most 11.2 px away           *)
BudOf(b, f) == Dist2(b, f) <= 1120 * 1120

(* each bud has a due parent of its own *)
OneBudPerDueParent ==
  \E par \in [DOMAIN Buds -> DueParents] :
    /\ \A k, l \in DOMAIN Buds : par[k] = par[l] => k = l
    /\ \A k \in DOMAIN Buds : BudOf(Buds[k], log.hatched[par[k]])

(* a bud keeps 2.05 food radii from every pellet that was there when it    *)
(* was placed, and lies on no obstacle                                     *)
BudsApart ==
  \A k \in DOMAIN Buds :
    /\ \A j \in 1..(Len(log.hatched) + k - 1) :
         Dist2(Buds[k], foods[j]) >= ((205 * 4 * PX) \div 100) * ((205 * 4 * PX) \div 100)
    /\ \A j \in DOMAIN blocks : ~PelletOnBlock(Buds[k].x, Buds[k].y, blocks[j])

(* a due parent is rescheduled, any other pellet is as it was, and the     *)
(* pellets made in this frame wait for a later one                         *)
Rescheduled ==
  /\ \A i \in DOMAIN log.hatched :
       IF i \in DueParents /\ grow.enabled
       THEN /\ foods[i].nextGrowMs > now
            /\ foods[i].x = log.hatched[i].x /\ foods[i].y = log.hatched[i].y
       ELSE foods[i] = log.hatched[i]
  /\ \A i \in (Len(log.food1) + 1)..Len(foods) : foods[i].nextGrowMs > now

(* C32: budding adds at most one pellet per parent per tick, only while    *)
(* growth is enabled and only for a parent whose growth time is <= now;    *)
(* every pellet it places is at least 2.05 x foodRadius from every pellet  *)
(* existing at that moment and on no obstacle; the parent's next growth    *)
(* time is moved into the future whether or not a pellet was placed; and a *)
(* pellet created during a tick does not bud in that tick                  *)
C32_Budding ==
  IsTick =>
    /\ Len(foods) >= Len(log.hatched)
    /\ ~grow.enabled => foods = log.hatched
    /\ OneBudPerDueParent
    /\ BudsApart
    /\ Rescheduled

(* two due pellets have budded in one frame *)
C32_Witness ==
  /\ IsTick
  /\ grow.enabled
  /\ Cardinality(DueParents) >= 2
  /\ Len(Buds) >= 2

(* C33 *)
(* the traits a mutate call drew for mutation *)
Drawn == {t \in MutableTraits : log.birth.draw[t] # NoMut}

(* the draws of a call in which exactly the traits of S mutate, trait t    *)
(* with perturbation d[t]                                                  *)
DrawOf(S, d) == [k \in DrawKeys |-> IF k \in S THEN d[k] ELSE NoMut]

(* what the draw u makes of trait t of g *)
PerturbedValue(g, t, u) ==
  StoreTrait(t, applyGradualMutation(g[t], mutationRanges[t], g.mutationRate,
                                     u, CLAMP[t]))

(* child differs from g in exactly the traits of S *)
ChangedExactly(g, child, S) ==
  \A t \in MutableTraits : (t \in S) <=> (child[t] # g[t])

(* child keeps every trait outside S and carries in every trait of S the   *)
(* value of that trait's own perturbation                                  *)
DrawnExactly(g, child, S, draw) ==
  \A t \in MutableTraits :
    /\ t \notin S => child[t] = g[t]
    /\ t \in S => child[t] = PerturbedValue(g, t, draw[t])

(* C33 as stated: for a parent with 0 < mutationRate < 1 and every subset *)
(* S of the 10 mutable traits, mutate has an outcome in which exactly the  *)
(* traits of S differ from the parent's values and every other trait       *)
(* equals the parent's value.                                              *)
C33_ExactSubsetChanges ==
  log.op = "init" =>
    LET g == cells[1].genes
    IN (0 < g.mutationRate /\ g.mutationRate < 10000) =>
         \A S \in SUBSET MutableTraits :
           \E d \in [S -> UnitDraws] :
             /\ DrawPossible(g.mutationRate, DrawOf(S, d))
             /\ ChangedExactly(g, mutate(g, DrawOf(S, d)), S)

(* C33 amended: for a parent with 0 < mutationRate < 1 every subset S of  *)
(* the 10 mutable traits can be the set of traits drawn for mutation, with *)
(* an outcome in which every trait outside S equals the parent's value and *)
(* every trait of S other than the radius differs from it; and in every    *)
(* call each trait that is not drawn equals the parent's value and each    *)
(* drawn trait carries its own perturbation, which for the radius, rounded *)
(* to whole pixels, can be the parent's radius again.                      *)
C33_IndependentTraits ==
  LET g == cells[1].genes
  IN /\ (log.op = "init" /\ 0 < g.mutationRate /\ g.mutationRate < 10000) =>
          \A S \in SUBSET MutableTraits :
            \E d \in [S -> UnitDraws] :
              /\ DrawPossible(g.mutationRate, DrawOf(S, d))
              /\ DrawnExactly(g, mutate(g, DrawOf(S, d)), S, d)
              /\ \A t \in S \ {"radius"} : mutate(g, DrawOf(S, d))[t] # g[t]
     /\ log.op = "mutate" =>
          DrawnExactly(g, log.genes, Drawn, log.birth.draw)

(* a call that drew three traits, the radius among them, changed the       *)
(* radius and left the speed as the parent's                               *)
C33_Witness ==
  /\ log.op = "mutate"
  /\ Cardinality(Drawn) = 3
  /\ "radius" \in Drawn
  /\ "maxSpeed" \notin Drawn
  /\ log.genes.radius # cells[1].genes.radius
  /\ log.genes.maxSpeed = cells[1].genes.maxSpeed

(* C34 *)
(* what must not change on a dead agent *)
Inert(c) == <<c.x, c.y, c.vx, c.vy, c.energy, c.digestQueue, c.alive, c.killed>>

(* the stages of the last frame, in order: the list before the frame,      *)
(* after update, after tryReproduce, after the collision pass, after the   *)
(* predation pass, after the feeding pass                                  *)
Stages == <<log.cells0, log.pre, log.post, log.pred0, log.eat0, log.part0>>

(* an agent dead at one stage is the same at every later stage *)
DeadUnchanged ==
  \A s \in 1..5 : \A i \in DOMAIN log.cells0 :
    ~Stages[s][i].alive => Inert(Stages[s + 1][i]) = Inert(Stages[s][i])

(* no agent dead after its update is a parent, a collision partner, a      *)
(* hunter or a prey of the frame                                           *)
DeadTakesNoPart ==
  /\ \A k \in DOMAIN ParentIdx : log.pre[ParentIdx[k]].alive
  /\ \A k \in DOMAIN log.pairs :
       log.post[log.pairs[k][1]].alive /\ log.post[log.pairs[k][2]].alive
  /\ \A k \in DOMAIN log.kills :
       /\ log.pred0[IndexOfId(log.pred0, log.kills[k].pred)].alive
       /\ log.pred0[IndexOfId(log.pred0, log.kills[k].prey)].alive
  /\ \A k, l \in DOMAIN log.kills : k # l => log.kills[k].prey # log.kills[l].prey

(* an agent whose energy is <= 0 after the metabolism step is dead after   *)
(* its update, with the killed flag unset                                  *)
StarvedDiesNaturally ==
  \A i \in DOMAIN log.cells0 :
    (log.cells0[i].alive /\ log.pre[i].energy <= 0)
      => ~log.pre[i].alive /\ ~log.pre[i].killed

(* C34: a dead agent is inert: once alive = false its position, velocity,  *)
(* energy and digestion queue never change again, it never reproduces, is  *)
(* never a collision partner, a hunter or a hunting target and is never    *)
(* killed again; and an agent whose energy is <= 0 after the metabolism    *)
(* step becomes alive = false in that update with the killed flag unset.   *)
C34_DeadIsInert ==
  IsTick => DeadUnchanged /\ DeadTakesNoPart /\ StarvedDiesNaturally

(* C35 *)
(* the deaths (identity of the dead agent) that have a corpse, a nutrient  *)
CorpseSrcs(bodies) == {bodies[k].src : k \in DOMAIN bodies}
NutrientSrcs(ns) == {ns[k].src : k \in DOMAIN ns}

(* a death's corpse is present iff its nutrient is pending, and the two    *)
(* carry the same time                                                     *)
Lockstep ==
  /\ CorpseSrcs(deadBodies) = NutrientSrcs(nutrients)
  /\ \A i \in DOMAIN deadBodies, k \in DOMAIN nutrients :
       deadBodies[i].src = nutrients[k].src
         => deadBodies[i].removeAt = nutrients[k].atMs

WipeOps == {"wipeAll", "wipeFoodOnly", "wipeCellsOfType"}

(* in a frame every nutrient that is due (atMs <= now) hatches and its     *)
(* corpse is gone after the frame; every other one stays with its corpse   *)
CorpseGoesWithHatch ==
  (log'.op = "tick" /\ Lockstep) =>
    \A k \in DOMAIN log'.nutr0 :
      LET n == log'.nutr0[k]
      IN /\ n.atMs <= now' => /\ n.src \notin NutrientSrcs(nutrients')
                              /\ n.src \notin CorpseSrcs(deadBodies')
         /\ n.atMs > now' => /\ n.src \in NutrientSrcs(nutrients')
                             /\ n.src \in CorpseSrcs(deadBodies')

(* C35: a corpse and the nutrient scheduled by the same death stay in      *)
(* lockstep: the corpse is removed in the same tick in which its nutrient  *)
(* hatches (the first tick with now >= the release time), so, absent wipe  *)
(* commands, after every tick a death's corpse is present iff that death's *)
(* nutrient is still pending.                                              *)
C35_CorpseNutrientLockstep ==
  /\ [](log.op = "init" => Lockstep)
  /\ [][/\ (Lockstep /\ log'.op \notin WipeOps) => Lockstep'
        /\ CorpseGoesWithHatch]_vars

(* a frame in which one death's nutrient hatched and its corpse went,      *)
(* another death's nutrient and corpse stayed                              *)
C35_Witness ==
  /\ IsTick
  /\ \E k \in DOMAIN log.nutr0 :
       /\ log.nutr0[k].atMs <= now
       /\ log.nutr0[k].src \notin CorpseSrcs(deadBodies)
  /\ \E k \in DOMAIN nutrients : nutrients[k].src \in CorpseSrcs(deadBodies)

(* C36 *)
(* the credits of queue q that are ready at t, those that are not, and the *)
(* sum of the ready amounts                                                *)
ReadyAt(q, t) == SelectSeq(q, LAMBDA it : it.atMs <= t)
NotReadyAt(q, t) == SelectSeq(q, LAMBDA it : it.atMs > t)
ReadySum(q, t) == SeqSum([k \in DOMAIN ReadyAt(q, t) |-> ReadyAt(q, t)[k].amount])

(* q starts with p *)
StartsWith(q, p) == Len(p) <= Len(q) /\ SubSeq(q, 1, Len(p)) = p

(* the digestion step of a living agent adds the ready amounts (capped at  *)
(* maxEnergy), drops exactly the ready credits and keeps the others in     *)
(* their order; a dead agent's energy and queue are left alone             *)
FlushOnce ==
  \A i \in DOMAIN log.cells0 :
    LET c == log.cells0[i]
        f == log.flushed[i]
    IN IF c.alive
       THEN /\ f.digestQueue = NotReadyAt(c.digestQueue, now)
            /\ f.energy = IF ReadyAt(c.digestQueue, now) = <<>> THEN c.energy
                          ELSE Min(c.maxEnergy, c.energy + ReadySum(c.digestQueue, now))
       ELSE /\ f.digestQueue = c.digestQueue
            /\ f.energy = c.energy
            /\ log.part0[i].energy = c.energy

(* after the digestion step of its update no credit is applied in the rest *)
(* of the frame: the energy does not rise after the update and the queue   *)
(* only receives new credits at its end, none of them ready before the     *)
(* next frame                                                              *)
NoLateCredit ==
  \A i \in DOMAIN log.cells0 :
    /\ log.pre[i].digestQueue = log.flushed[i].digestQueue
    /\ log.part0[i].energy <= log.pre[i].energy
    /\ StartsWith(log.part0[i].digestQueue, log.pre[i].digestQueue)
    /\ \A k \in (Len(log.pre[i].digestQueue) + 1)..Len(log.part0[i].digestQueue) :
         log.part0[i].digestQueue[k].atMs > now

(* C36: over any sequence of ticks, every queued digestion credit is       *)
(* applied to its owner's energy at most once, only during an update of    *)
(* the living owner at a time >= the credit's ready time; entries that are *)
(* not yet ready keep their relative queue order; and credits still queued *)
(* when the owner dies are never applied.                                  *)
C36_CreditsAppliedOnce ==
  IsTick => FlushOnce /\ NoLateCredit

(* a frame whose digestion step applied a ready credit of a living agent   *)
(* that also held two credits not yet ready                                *)
C36_Witness ==
  /\ IsTick
  /\ \E i \in DOMAIN log.cells0 :
       /\ log.cells0[i].alive
       /\ ReadyAt(log.cells0[i].digestQueue, now) # <<>>
       /\ Len(NotReadyAt(log.cells0[i].digestQueue, now)) >= 2
       /\ log.flushed[i].energy > log.cells0[i].energy

(* C37: the reproduction cooldown also applies to newborns: an agent never *)
(* reproduces earlier than one species cooldown after its own birth; an    *)
(* agent born in one frame is not a parent in the next frame when that     *)
(* frame comes less than the cooldown later.                               *)
C37_NewbornCooldown ==
  [][(IsTick /\ log'.op = "tick") =>
       \A i \in DOMAIN log'.pre :
         (log'.pre[i].id \in log.born /\ log'.post[i] # log'.pre[i])
           => now' - now >= reproCooldownMs[log'.pre[i].kind]]_vars

(* C38: metabolism is a strictly positive cost: for every genome in the    *)
(* clamp ranges and every speed the metabolism step of an update strictly  *)
(* decreases the agent's energy; the energy after the update of a living   *)
(* agent is below its energy after the digestion step of that update.      *)
C38_MetabolismDecreases ==
  IsTick =>
    \A i \in DOMAIN log.cells0 :
      log.cells0[i].alive => log.pre[i].energy < log.flushed[i].energy

(* C39: the tools are mutually exclusive after any sequence of button      *)
(* clicks, chooser selections, custom-cell activations and console         *)
(* commands: spawnFoodMode and spawnCellMode are never both true, and      *)
(* whenever mode is 'kill' or 'block' both spawn modes are false.          *)
C39_ToolsExclusive ==
  /\ mode \in {"spawn", "kill", "block"}
  /\ ~(spawnFoodMode /\ spawnCellMode)
  /\ mode \in {"kill", "block"} => ~spawnFoodMode /\ ~spawnCellMode

(* the Kill button was clicked after auto food had made the pointer the    *)
(* food tool and a console command had been run: auto food is still on,    *)
(* the kill tool is on                                                     *)
C39_Witness ==
  /\ mode = "kill"
  /\ autoFood.enabled
  /\ term # <<>>
  /\ log.op = "killBtn"

====
